---- MODULE Spec2Model ----
(***************************************************************************)
(* Model of the text-to-video pipeline's script parser                     *)
(* (src/src/pipeline/parser.py).  Strings are sequences of one-character   *)
(* strings, the regular expressions of parse_script are operators over     *)
(* such sequences, and Python's dictionaries are objects in a heap that    *)
(* `scenes' and `current_scene' refer to by address.                       *)
(***************************************************************************)
EXTENDS Integers, Sequences, FiniteSets, TLC

(***************************************************************************)
(* Bounds of the model.                                                    *)
(***************************************************************************)
\* largest number of lines of an input script
MaxLines == 3

(***************************************************************************)
(* Characters and the string methods the parser uses.                      *)
(***************************************************************************)
UpperCase == <<"A","B","C","D","E","F","G","H","I","J","K","L","M",
               "N","O","P","Q","R","S","T","U","V","W","X","Y","Z">>

LowerCase == <<"a","b","c","d","e","f","g","h","i","j","k","l","m",
               "n","o","p","q","r","s","t","u","v","w","x","y","z">>

DigitChars == <<"0","1","2","3","4","5","6","7","8","9">>

\* the characters str.strip() removes and \s matches
Whitespace == {" ", "\t", "\n"}

IsUpper(c) == \E k \in 1..26 : UpperCase[k] = c

IsLower(c) == \E k \in 1..26 : LowerCase[k] = c

\* [A-Za-z]
IsAlpha(c) == IsUpper(c) \/ IsLower(c)

\* \d
IsDigit(c) == \E k \in 1..10 : DigitChars[k] = c

DigitVal(c) == (CHOOSE k \in 1..10 : DigitChars[k] = c) - 1

\* case folding of re.IGNORECASE
ToLower(c) == IF IsUpper(c) THEN LowerCase[CHOOSE k \in 1..26 : UpperCase[k] = c] ELSE c

LowerStr(s) == [k \in 1..Len(s) |-> ToLower(s[k])]

Drop(s, n) == SubSeq(s, n + 1, Len(s))

\* str.lstrip(); t is the value of the argument, computed once as in a call
LStrip(s) ==
  CHOOSE r \in {
    IF \A k \in 1..Len(t) : t[k] \in Whitespace THEN <<>>
    ELSE Drop(t, (CHOOSE k \in 1..Len(t) :
                     /\ t[k] \notin Whitespace
                     /\ \A j \in 1..(k - 1) : t[j] \in Whitespace) - 1) :
    t \in {s} } : TRUE

\* str.rstrip(); t is the value of the argument
RStrip(s) ==
  CHOOSE r \in {
    IF \A k \in 1..Len(t) : t[k] \in Whitespace THEN <<>>
    ELSE SubSeq(t, 1, CHOOSE k \in 1..Len(t) :
                     /\ t[k] \notin Whitespace
                     /\ \A j \in (k + 1)..Len(t) : t[j] \in Whitespace) :
    t \in {s} } : TRUE

\* str.strip()
Strip(s) == RStrip(LStrip(s))

\* str.split('\n'): the pieces between the newlines, always at least one
RECURSIVE SplitFrom(_, _, _)
SplitFrom(s, k, piece) ==
  IF k > Len(s) THEN <<piece>>
  ELSE IF s[k] = "\n" THEN <<piece>> \o SplitFrom(s, k + 1, <<>>)
  ELSE SplitFrom(s, k + 1, Append(piece, s[k]))

Split(s) == SplitFrom(s, 1, <<>>)

\* '\n'.join(ls)
RECURSIVE Join(_)
Join(ls) ==
  IF Len(ls) = 0 THEN <<>>
  ELSE IF Len(ls) = 1 THEN ls[1]
  ELSE ls[1] \o <<"\n">> \o Join(Tail(ls))

\* int(s) of a string of decimal digits
RECURSIVE ParseInt(_)
ParseInt(s) ==
  IF Len(s) = 0 THEN 0
  ELSE 10 * ParseInt(SubSeq(s, 1, Len(s) - 1)) + DigitVal(s[Len(s)])

\* str(n) of a natural number
RECURSIVE IntToStr(_)
IntToStr(n) ==
  IF n < 10 THEN <<DigitChars[n + 1]>>
  ELSE IntToStr(n \div 10) \o <<DigitChars[(n % 10) + 1]>>

\* format(n, '02d'): at least two digits, zero-padded
Pad2(n) == IF n < 10 THEN <<"0">> \o IntToStr(n) ELSE IntToStr(n)

\* f"scene_{n:02d}"
SceneIdOf(n) == <<"s","c","e","n","e","_">> \o Pad2(n)

\* f"Scene {n}"
SceneTitleOf(n) == <<"S","c","e","n","e"," ">> \o IntToStr(n)

\* the longest prefix of s made of digits; t is the value of s
DigitRun(s) ==
  CHOOSE r \in {
    IF \A k \in 1..Len(t) : IsDigit(t[k]) THEN t
    ELSE SubSeq(t, 1, (CHOOSE k \in 1..Len(t) :
                         /\ ~IsDigit(t[k])
                         /\ \A j \in 1..(k - 1) : IsDigit(t[j])) - 1) :
    t \in {s} } : TRUE

\* float(s) of digits with an optional fraction, in thousandths of a unit
\* (the inputs of the model carry at most three fractional digits)
ParseFloat(s) ==
  LET ip == DigitRun(s)
      fr == IF Len(s) > Len(ip) THEN Drop(s, Len(ip) + 1) ELSE <<>>
      f3 == SubSeq(fr \o <<"0","0","0">>, 1, 3)
  IN  1000 * ParseInt(ip) + ParseInt(f3)

\* s starts with the lower-case word w, compared case-insensitively; t is
\* the value of s
HasPrefixCI(s, w) ==
  \E t \in {s} :
    /\ Len(t) >= Len(w)
    /\ \A k \in 1..Len(w) : ToLower(t[k]) = w[k]

\* what "\s*(.+)$" captures from a non-empty rest: everything after the
\* leading whitespace, or the last character when the rest is all whitespace
GreedyTail(r) ==
  CHOOSE g \in { IF LStrip(t) # <<>> THEN LStrip(t) ELSE <<t[Len(t)]>> :
                 t \in {r} } : TRUE

(***************************************************************************)
(* The regular expressions of parse_script.  Each operator returns the     *)
(* record [ok, g1, g2]: whether re.match succeeds on the line and the text *)
(* of its capture groups 1 and 2.                                          *)
(***************************************************************************)
NoMatch == [ok |-> FALSE, g1 |-> <<>>, g2 |-> <<>>]

\* re.match(r'^Scene\s+(\d+)[:\-]?\s*(.*)$', line, re.IGNORECASE)
MatchScene(line) ==
  IF ~HasPrefixCI(line, <<"s","c","e","n","e">>) THEN NoMatch
  ELSE LET r1 == Drop(line, 5)
           r2 == LStrip(r1)
           num == DigitRun(r2)
           r3 == Drop(r2, Len(num))
           r4 == IF Len(r3) > 0 /\ r3[1] \in {":", "-"} THEN Drop(r3, 1) ELSE r3
       IN  IF Len(r1) > 0 /\ r1[1] \in Whitespace /\ Len(num) > 0
           THEN [ok |-> TRUE, g1 |-> num, g2 |-> LStrip(r4)]
           ELSE NoMatch

\* re.match(r'^Narration:\s*(.+)$', line, re.IGNORECASE)
MatchNarration(line) ==
  IF HasPrefixCI(line, <<"n","a","r","r","a","t","i","o","n",":">>) /\ Len(line) > 10
  THEN [ok |-> TRUE, g1 |-> GreedyTail(Drop(line, 10)), g2 |-> <<>>]
  ELSE NoMatch

\* re.match(r'^([A-Z][A-Za-z\s]+?):\s*(.+)$', line): group 1 holds no ':',
\* so it ends at the first ':' of the line
MatchDialogue(line) ==
  IF \A k \in 1..Len(line) : line[k] # ":" THEN NoMatch
  ELSE LET p == CHOOSE k \in 1..Len(line) :
                  line[k] = ":" /\ \A j \in 1..(k - 1) : line[j] # ":"
       IN  IF /\ p >= 3
              /\ IsUpper(line[1])
              /\ \A k \in 2..(p - 1) : IsAlpha(line[k]) \/ line[k] \in Whitespace
              /\ Len(line) > p
           THEN [ok |-> TRUE, g1 |-> SubSeq(line, 1, p - 1),
                 g2 |-> GreedyTail(Drop(line, p))]
           ELSE NoMatch

\* re.match(r'^Visual[:\-]?\s*(.+)$', line, re.IGNORECASE): when nothing
\* follows the ':' or '-', the group captures that character itself
MatchVisual(line) ==
  IF HasPrefixCI(line, <<"v","i","s","u","a","l">>) /\ Len(line) > 6
  THEN LET r1 == Drop(line, 6)
       IN  [ok |-> TRUE,
            g1 |-> IF r1[1] \in {":", "-"} /\ Len(r1) > 1
                   THEN GreedyTail(Drop(r1, 1))
                   ELSE GreedyTail(r1),
            g2 |-> <<>>]
  ELSE NoMatch

\* the optional unit of a duration line: (?:seconds?|sec|s)?
DurationUnits == { <<>>, <<"s">>, <<"s","e","c">>, <<"s","e","c","o","n","d">>,
                   <<"s","e","c","o","n","d","s">> }

\* re.match(r'^Duration[:\-]?\s*(\d+(?:\.\d+)?)\s*(?:seconds?|sec|s)?$',
\*          line, re.IGNORECASE)
MatchDuration(line) ==
  IF ~HasPrefixCI(line, <<"d","u","r","a","t","i","o","n">>) THEN NoMatch
  ELSE LET r1 == Drop(line, 8)
           r2 == IF Len(r1) > 0 /\ r1[1] \in {":", "-"} THEN Drop(r1, 1) ELSE r1
           r3 == LStrip(r2)
           ip == DigitRun(r3)
           r4 == Drop(r3, Len(ip))
           fr == IF Len(r4) > 1 /\ r4[1] = "." THEN DigitRun(Drop(r4, 1)) ELSE <<>>
           num == IF Len(fr) > 0 THEN ip \o <<".">> \o fr ELSE ip
           r5 == Drop(r3, Len(num))
       IN  IF Len(ip) > 0 /\ LowerStr(LStrip(r5)) \in DurationUnits
           THEN [ok |-> TRUE, g1 |-> num, g2 |-> <<>>]
           ELSE NoMatch

(***************************************************************************)
(* Input scripts: every sequence of at most MaxLines of these lines,       *)
(* joined by newlines.                                                     *)
(***************************************************************************)
SampleLines == {
  <<>>,                                                      \* ""
  <<" ","\t">>,                                              \* " \t"
  <<"S","c","e","n","e"," ","1",":"," ","T">>,               \* "Scene 1: T"
  <<"s","c","e","n","e"," ","0","2">>,                       \* "scene 02"
  <<"N","a","r","r","a","t","i","o","n",":"," ","n">>,       \* "Narration: n"
  <<" ","A","l",":"," ","h","i">>,                           \* " Al: hi"
  <<"B","o",":"," ","y","o">>,                               \* "Bo: yo"
  <<"V","i","s","u","a","l",":"," ","v">>,                   \* "Visual: v"
  <<"v","i","s","u","a","l","-"," ","w">>,                   \* "visual- w"
  <<"D","u","r","a","t","i","o","n",":"," ","5">>,           \* "Duration: 5"
  <<"d","u","r","a","t","i","o","n"," ","2",".","5","s">>,   \* "duration 2.5s"
  <<"D","u","r","a","t","i","o","n","-","3"," ","s","e","c">>, \* "Duration-3 sec"
  <<"p","q">> }                                              \* "pq"

Scripts == { Join(ls) : ls \in UNION { [1..n -> SampleLines] : n \in 1..MaxLines } }

(***************************************************************************)
(* State of one call of parse_script.                                      *)
(***************************************************************************)
VARIABLES
  script_text,    \* the argument of parse_script
  lines,          \* script_text.split('\n')
  i,              \* index of the next line, counted from 0
  current_scene,  \* address of the open scene's dictionary, or None
  scene_counter,  \* number of scenes opened so far
  scenes,         \* the output list: addresses of the appended dictionaries
  heap,           \* the scene dictionaries, by address (allocation order)
  pc,             \* "start", "loop", "returned", "raise_empty", "raise_no_scenes"
  opened_at       \* history: for each address, the 1-based line that opened it

parser_vars == <<script_text, lines, i, current_scene, scene_counter, scenes,
                 heap, pc, opened_at>>

(***************************************************************************)
(* State of one call of generate_frames (src/src/pipeline/visual_gen.py).  *)
(***************************************************************************)
VARIABLES
  data_scenes,    \* data.get('scenes', []): the scene dictionaries to render
  fps_hint,       \* the argument fps_hint
  scene_idx,      \* number of scenes the for loop has rendered
  out_tree,       \* the tree under out_dir: directory name -> file name -> image
  gf_pc,          \* "idle", "start", "loop", "done", "raise_no_scenes"
  rendered,       \* history: the scenes (1-based) _render_fallback_frame drew for
  gf_calls        \* history: number of calls made on this output directory

gf_vars == <<data_scenes, fps_hint, scene_idx, out_tree, gf_pc, rendered,
             gf_calls>>

(***************************************************************************)
(* State of one call of synthesize (src/src/pipeline/audio_synth.py).      *)
(***************************************************************************)
VARIABLES
  syn_text,       \* the argument text
  syn_out_path,   \* the argument out_path
  syn_pc,         \* "idle", "start", "primary", "secondary", "returned",
                  \* "raise_empty", "raise_both"
  syn_calls,      \* history: the engines invoked, in order, each with the
                  \* exception it raised (<<>> when it returned)
  syn_error,      \* the exception e of the primary engine, once caught
  syn_result,     \* the value returned or the message of the exception raised
  syn_fs,         \* the directories and files that exist
  syn_audio,      \* the audio in the file at out_path: "none", "raw",
                  \* "normalized", "damaged"
  syn_norm        \* history: how the pass of _normalize_audio ended, "none"
                  \* when it was not run

syn_vars == <<syn_text, syn_out_path, syn_pc, syn_calls, syn_error, syn_result,
              syn_fs, syn_audio, syn_norm>>

(***************************************************************************)
(* State of one call of assemble (src/src/pipeline/assembler.py).          *)
(***************************************************************************)
VARIABLES
  asm_tree,       \* the files under frames_dir, as paths relative to it
  asm_tool,       \* whether `ffmpeg -version' runs (_check_ffmpeg)
  asm_audio,      \* whether audio_file is given
  asm_pc,         \* "idle", "start", "copy", "encode", "returned",
                  \* "raise_no_frames", "raise_no_tool", "raise_image",
                  \* "raise_encoder"
  asm_frames,     \* the local frames: the image paths found, sorted
  asm_tmp,        \* the files of tmpdir, <<>> when it does not exist
  asm_out,        \* the file at out_path: "absent", "old", "partial", "complete"
  asm_encoder     \* history: number of runs of the encoding command

asm_vars == <<asm_tree, asm_tool, asm_audio, asm_pc, asm_frames, asm_tmp,
              asm_out, asm_encoder>>

(***************************************************************************)
(* State of one run of the command line (main and ttv_run, src/src/cli.py).*)
(***************************************************************************)
VARIABLES
  run_script_found, \* os.path.exists(args.script)
  run_pc,           \* "idle", "main", "parse", "render", "synthesize",
                    \* "assemble", "complete", "failed", "exited"
  run_started,      \* history: the stages started, in order
  run_completed,    \* history: the stages that returned, in order
  run_failed,       \* history: the stage that raised, "" when none
  run_scenes,       \* scenes_data['scenes'] as read back from scenes.json
  run_audio_text,   \* the text handed to synthesize
  run_out,          \* the file at out_path: "absent", "old", "partial", "complete"
  run_exit          \* the exit status, <<>> while running

run_vars == <<run_script_found, run_pc, run_started, run_completed, run_failed,
              run_scenes, run_audio_text, run_out, run_exit>>

(***************************************************************************)
(* State of one call of parse_file (src/src/pipeline/parser.py).           *)
(***************************************************************************)
VARIABLES
  pf_input_file,  \* the file at input_path: "missing", "unreadable", "readable"
  pf_input_text,  \* what f.read() returns when the file is readable
  pf_output,      \* the file at output_path: "absent", "old", "partial", "json"
  pf_pc,          \* "idle", "read", "parse", "returned", "raised"
  pf_raised_type, \* the class of the exception reaching the caller, "" when none
  pf_raised_msg   \* how its message begins

pf_vars == <<pf_input_file, pf_input_text, pf_output, pf_pc, pf_raised_type,
             pf_raised_msg>>

vars == <<parser_vars, gf_vars, syn_vars, asm_vars, run_vars, pf_vars>>

\* the state no call of parse_script touches
outside_parser == <<gf_vars, syn_vars, asm_vars, run_vars, pf_vars>>

\* the state no call of generate_frames touches
outside_renderer == <<parser_vars, syn_vars, asm_vars, run_vars, pf_vars>>

\* the state no call of synthesize touches
outside_synthesizer == <<parser_vars, gf_vars, asm_vars, run_vars, pf_vars>>

\* the state no call of assemble touches
outside_assembler == <<parser_vars, gf_vars, syn_vars, run_vars, pf_vars>>

\* the state the command line does not hold itself
outside_run == <<parser_vars, gf_vars, syn_vars, asm_vars, pf_vars>>

\* no call of generate_frames is under way
RendererIdle ==
  /\ data_scenes = <<>>
  /\ fps_hint = 0
  /\ scene_idx = 0
  /\ out_tree = <<>>
  /\ gf_pc = "idle"
  /\ rendered = <<>>
  /\ gf_calls = 0

\* no call of synthesize is under way
SynthesizerIdle ==
  /\ syn_text = <<>>
  /\ syn_out_path = <<>>
  /\ syn_pc = "idle"
  /\ syn_calls = <<>>
  /\ syn_error = <<>>
  /\ syn_result = <<>>
  /\ syn_fs = {}
  /\ syn_audio = "none"
  /\ syn_norm = "none"

\* no call of assemble is under way
AssemblerIdle ==
  /\ asm_tree = {}
  /\ asm_tool = FALSE
  /\ asm_audio = FALSE
  /\ asm_pc = "idle"
  /\ asm_frames = <<>>
  /\ asm_tmp = <<>>
  /\ asm_out = "absent"
  /\ asm_encoder = 0

\* the command line is not running
RunIdle ==
  /\ run_script_found = FALSE
  /\ run_pc = "idle"
  /\ run_started = <<>>
  /\ run_completed = <<>>
  /\ run_failed = ""
  /\ run_scenes = <<>>
  /\ run_audio_text = <<>>
  /\ run_out = "absent"
  /\ run_exit = <<>>

\* no call of parse_file is under way
ParseFileIdle ==
  /\ pf_input_file = "missing"
  /\ pf_input_text = <<>>
  /\ pf_output = "absent"
  /\ pf_pc = "idle"
  /\ pf_raised_type = ""
  /\ pf_raised_msg = ""

None == 0

\* the value None of an optional field; a set value v is <<v>>
Unset == <<>>

SceneKeys == {"scene_id", "start_cue", "description", "characters", "dialogue",
              "visual_prompts", "duration_hint"}

\* the dictionary literal a newly opened scene starts as
NewScene(id, desc) ==
  [keys |-> SceneKeys, scene_id |-> id, start_cue |-> Unset,
   description |-> desc, characters |-> <<>>, dialogue |-> <<>>,
   visual_prompts |-> <<>>, duration_hint |-> Unset]

\* finalize_scene without the visual_prompts default
finalize_scene_NoPromptDefault(scene, scene_num) ==
  LET s2 == IF scene.description = <<>>
            THEN [scene EXCEPT !.description = SceneTitleOf(scene_num)] ELSE scene
  IN  [s2 EXCEPT !.keys = @ \ ({"start_cue"} \cup
                    (IF s2.duration_hint = Unset THEN {"duration_hint"} ELSE {}))]

\* finalize_scene leaving the unset optional keys in the dictionary
finalize_scene_KeepsNullKeys(scene, scene_num) ==
  LET s2 == IF scene.description = <<>>
            THEN [scene EXCEPT !.description = SceneTitleOf(scene_num)] ELSE scene
  IN  IF s2.visual_prompts = <<>>
      THEN [s2 EXCEPT !.visual_prompts = <<s2.description>>] ELSE s2

\* _finalize_scene(scene, scene_num)
finalize_scene(scene, scene_num) ==
  LET s1 == IF scene.scene_id = <<>>
            THEN [scene EXCEPT !.scene_id = SceneIdOf(scene_num)] ELSE scene
      s2 == IF s1.description = <<>>
            THEN [s1 EXCEPT !.description = SceneTitleOf(scene_num)] ELSE s1
      s3 == IF s2.visual_prompts = <<>>
            THEN [s2 EXCEPT !.visual_prompts = <<s2.description>>] ELSE s2
      s4 == IF "start_cue" \notin s3.keys \/ s3.start_cue = Unset
            THEN [s3 EXCEPT !.keys = @ \ {"start_cue"}] ELSE s3
  IN  IF "duration_hint" \notin s4.keys \/ s4.duration_hint = Unset
      THEN [s4 EXCEPT !.keys = @ \ {"duration_hint"}] ELSE s4

\* Classify testing the dialogue pattern before the narration pattern
Classify_DialogueFirst(line) ==
  IF line = <<>> THEN "blank"
  ELSE IF MatchScene(line).ok THEN "marker"
  ELSE IF MatchDialogue(line).ok THEN "dialogue"
  ELSE IF MatchNarration(line).ok THEN "narration"
  ELSE IF MatchVisual(line).ok THEN "visual"
  ELSE IF MatchDuration(line).ok THEN "duration"
  ELSE "fallback"

\* the if-chain of the loop body: the first test that succeeds on the
\* line; t is the local variable line, assigned once per iteration
Classify(line) ==
  CHOOSE c \in {
    IF t = <<>> THEN "blank"
    ELSE IF MatchScene(t).ok THEN "marker"
    ELSE IF MatchNarration(t).ok THEN "narration"
    ELSE IF MatchDialogue(t).ok THEN "dialogue"
    ELSE IF MatchVisual(t).ok THEN "visual"
    ELSE IF MatchDuration(t).ok THEN "duration"
    ELSE "fallback" : t \in {line} } : TRUE

\* the scene id a marker line gives the scene it opens
MarkerSceneId(scene_num, counter) == SceneIdOf(scene_num)

\* the description a marker line gives the scene it opens
MarkerDescription(scene_title, scene_num, counter) ==
  IF scene_title # <<>> THEN scene_title ELSE SceneTitleOf(scene_num)

\* ApplyNarration adding the narration as a prompt even when prompts exist
ApplyNarration_AlwaysAppends(scene, narration_text) ==
  [scene EXCEPT !.description = narration_text,
                !.visual_prompts = Append(@, narration_text)]

\* the narration branch
ApplyNarration(scene, narration_text) ==
  [scene EXCEPT !.description = narration_text,
                !.visual_prompts = IF @ = <<>> THEN <<narration_text>> ELSE @]

\* ApplyDialogue without the membership test on characters
ApplyDialogue_NoDedup(scene, speaker, text) ==
  [scene EXCEPT
     !.characters = Append(@, speaker),
     !.dialogue = Append(@, [speaker |-> speaker, text |-> text])]

\* the dialogue branch
ApplyDialogue(scene, speaker, text) ==
  [scene EXCEPT
     !.characters = IF \E k \in 1..Len(@) : @[k] = speaker THEN @
                    ELSE Append(@, speaker),
     !.dialogue = Append(@, [speaker |-> speaker, text |-> text])]

\* ApplyVisual taking the prompt as the description too
ApplyVisual_SetsDescription(scene, prompt) ==
  [scene EXCEPT !.visual_prompts = Append(@, prompt), !.description = prompt]

\* the visual-prompt branch
ApplyVisual(scene, prompt) ==
  [scene EXCEPT !.visual_prompts = Append(@, prompt)]

\* the duration branch
ApplyDuration(scene, number) ==
  [scene EXCEPT !.duration_hint = <<ParseFloat(number)>>]

\* ApplyFallback joining without the separating space
ApplyFallback_NoSpace(scene, line) ==
  IF scene.description = <<>>
  THEN [scene EXCEPT !.description = line,
                     !.visual_prompts = IF @ = <<>> THEN <<line>> ELSE @]
  ELSE [scene EXCEPT !.description = @ \o line]

\* the last branch: a line that matched no pattern
ApplyFallback(scene, line) ==
  IF scene.description = <<>>
  THEN [scene EXCEPT !.description = line,
                     !.visual_prompts = IF @ = <<>> THEN <<line>> ELSE @]
  ELSE [scene EXCEPT !.description = @ \o <<" ">> \o line]

\* what the matched branch does to the open scene
ApplyLine(scene, line) ==
  CHOOSE r \in {
    CASE Classify(t) = "narration" ->
           ApplyNarration(scene, Strip(MatchNarration(t).g1))
      [] Classify(t) = "dialogue" ->
           ApplyDialogue(scene, Strip(MatchDialogue(t).g1),
                         Strip(MatchDialogue(t).g2))
      [] Classify(t) = "visual" ->
           ApplyVisual(scene, Strip(MatchVisual(t).g1))
      [] Classify(t) = "duration" ->
           ApplyDuration(scene, MatchDuration(t).g1)
      [] OTHER -> ApplyFallback(scene, t) : t \in {line} } : TRUE

Init ==
  /\ script_text \in Scripts
  /\ lines = <<>>
  /\ i = 0
  /\ current_scene = None
  /\ scene_counter = 0
  /\ scenes = <<>>
  /\ heap = <<>>
  /\ pc = "start"
  /\ opened_at = <<>>
  /\ RendererIdle
  /\ SynthesizerIdle
  /\ AssemblerIdle
  /\ RunIdle
  /\ ParseFileIdle

\* line = lines[i].strip()
Line == Strip(lines[i + 1])

InLoop == pc = "loop" /\ i < Len(lines)

\* ClosedSlot forgetting to clear the slot
ClosedSlot_Kept(cur) == cur

\* the slot after a blank line closed the scene
ClosedSlot(cur) == None

\* scenes.append(_finalize_scene(current_scene, scene_counter)): the
\* dictionary is completed in place and its address appended
HeapFinalized == [heap EXCEPT ![current_scene] = finalize_scene(@, scene_counter)]

\* the emptiness test and the initialisation before the loop
parse_start ==
  /\ pc = "start"
  /\ IF script_text = <<>> \/ Strip(script_text) = <<>>
     THEN /\ pc' = "raise_empty"
          /\ UNCHANGED <<lines, i, current_scene, scene_counter, scenes>>
     ELSE /\ pc' = "loop"
          /\ lines' = Split(script_text)
          /\ i' = 0
          /\ current_scene' = None
          /\ scene_counter' = 0
          /\ scenes' = <<>>
  /\ UNCHANGED <<script_text, heap, opened_at>>
  /\ UNCHANGED outside_parser

\* blank_line counting every blank line as a scene
blank_line_CountsScene ==
  /\ InLoop
  /\ Classify(Line) = "blank"
  /\ IF current_scene # None
     THEN /\ heap' = HeapFinalized
          /\ scenes' = Append(scenes, current_scene)
          /\ current_scene' = ClosedSlot(current_scene)
     ELSE UNCHANGED <<heap, scenes, current_scene>>
  /\ scene_counter' = scene_counter + 1
  /\ i' = i + 1
  /\ UNCHANGED <<script_text, lines, pc, opened_at>>
  /\ UNCHANGED outside_parser

\* an empty line: closes the open scene
blank_line ==
  /\ InLoop
  /\ Classify(Line) = "blank"
  /\ IF current_scene # None
     THEN /\ heap' = HeapFinalized
          /\ scenes' = Append(scenes, current_scene)
          /\ current_scene' = ClosedSlot(current_scene)
     ELSE UNCHANGED <<heap, scenes, current_scene>>
  /\ i' = i + 1
  /\ UNCHANGED <<script_text, lines, scene_counter, pc, opened_at>>
  /\ UNCHANGED outside_parser

\* scene_marker leaving the counter as it is
scene_marker_NoCount ==
  /\ InLoop
  /\ Classify(Line) = "marker"
  /\ LET scene_match == MatchScene(Line)
         scene_num == ParseInt(scene_match.g1)
         scene_title == Strip(scene_match.g2)
         h1 == IF current_scene # None THEN HeapFinalized ELSE heap
     IN  /\ heap' = Append(h1, NewScene(
                      MarkerSceneId(scene_num, scene_counter + 1),
                      MarkerDescription(scene_title, scene_num, scene_counter + 1)))
         /\ scenes' = IF current_scene # None THEN Append(scenes, current_scene)
                      ELSE scenes
  /\ scene_counter' = scene_counter
  /\ current_scene' = Len(heap) + 1
  /\ opened_at' = Append(opened_at, i + 1)
  /\ i' = i + 1
  /\ UNCHANGED <<script_text, lines, pc>>
  /\ UNCHANGED outside_parser

\* scene_marker opening the new scene without closing the open one
scene_marker_NoClose ==
  /\ InLoop
  /\ Classify(Line) = "marker"
  /\ LET scene_match == MatchScene(Line)
         scene_num == ParseInt(scene_match.g1)
         scene_title == Strip(scene_match.g2)
     IN  heap' = Append(heap, NewScene(
                   MarkerSceneId(scene_num, scene_counter + 1),
                   MarkerDescription(scene_title, scene_num, scene_counter + 1)))
  /\ scene_counter' = scene_counter + 1
  /\ current_scene' = Len(heap) + 1
  /\ opened_at' = Append(opened_at, i + 1)
  /\ i' = i + 1
  /\ UNCHANGED <<script_text, lines, pc, scenes>>
  /\ UNCHANGED outside_parser

\* a scene marker: closes the open scene and opens a new one
scene_marker ==
  /\ InLoop
  /\ Classify(Line) = "marker"
  /\ LET scene_match == MatchScene(Line)
         scene_num == ParseInt(scene_match.g1)
         scene_title == Strip(scene_match.g2)
         h1 == IF current_scene # None THEN HeapFinalized ELSE heap
     IN  /\ heap' = Append(h1, NewScene(
                      MarkerSceneId(scene_num, scene_counter + 1),
                      MarkerDescription(scene_title, scene_num, scene_counter + 1)))
         /\ scenes' = IF current_scene # None THEN Append(scenes, current_scene)
                      ELSE scenes
  /\ scene_counter' = scene_counter + 1
  /\ current_scene' = Len(heap) + 1
  /\ opened_at' = Append(opened_at, i + 1)
  /\ i' = i + 1
  /\ UNCHANGED <<script_text, lines, pc>>
  /\ UNCHANGED outside_parser

\* content_line going round again on the line that opened the implicit scene
content_line_SameLineAgain ==
  /\ InLoop
  /\ Classify(Line) \notin {"blank", "marker"}
  /\ LET implicit == current_scene = None
         counter == IF implicit THEN scene_counter + 1 ELSE scene_counter
         ref == IF implicit THEN Len(heap) + 1 ELSE current_scene
         h1 == IF implicit
               THEN Append(heap, NewScene(SceneIdOf(counter), <<>>)) ELSE heap
     IN  /\ heap' = [h1 EXCEPT ![ref] = ApplyLine(@, Line)]
         /\ current_scene' = ref
         /\ scene_counter' = counter
         /\ opened_at' = IF implicit THEN Append(opened_at, i + 1) ELSE opened_at
         /\ i' = IF implicit THEN i ELSE i + 1
  /\ UNCHANGED <<script_text, lines, scenes, pc>>
  /\ UNCHANGED outside_parser

\* content_line opening the implicit scene without applying the line to it
content_line_DropsLine ==
  /\ InLoop
  /\ Classify(Line) \notin {"blank", "marker"}
  /\ LET implicit == current_scene = None
         counter == IF implicit THEN scene_counter + 1 ELSE scene_counter
         ref == IF implicit THEN Len(heap) + 1 ELSE current_scene
     IN  /\ heap' = IF implicit
                    THEN Append(heap, NewScene(SceneIdOf(counter), <<>>))
                    ELSE [heap EXCEPT ![ref] = ApplyLine(@, Line)]
         /\ current_scene' = ref
         /\ scene_counter' = counter
         /\ opened_at' = IF implicit THEN Append(opened_at, i + 1) ELSE opened_at
  /\ i' = i + 1
  /\ UNCHANGED <<script_text, lines, scenes, pc>>
  /\ UNCHANGED outside_parser

\* any other line: opens a scene when none is open, then applies the
\* branch the line matches to the open scene
content_line ==
  /\ InLoop
  /\ Classify(Line) \notin {"blank", "marker"}
  /\ LET implicit == current_scene = None
         counter == IF implicit THEN scene_counter + 1 ELSE scene_counter
         ref == IF implicit THEN Len(heap) + 1 ELSE current_scene
         h1 == IF implicit
               THEN Append(heap, NewScene(SceneIdOf(counter), <<>>)) ELSE heap
     IN  /\ heap' = [h1 EXCEPT ![ref] = ApplyLine(@, Line)]
         /\ current_scene' = ref
         /\ scene_counter' = counter
         /\ opened_at' = IF implicit THEN Append(opened_at, i + 1) ELSE opened_at
  /\ i' = i + 1
  /\ UNCHANGED <<script_text, lines, scenes, pc>>
  /\ UNCHANGED outside_parser

\* FinalScenes forgetting the scene still open at the end of the input
FinalScenes_NoFlush(sc, cur) == sc

\* the list the function returns once the last open scene is appended
FinalScenes(sc, cur) == IF cur # None THEN Append(sc, cur) ELSE sc

\* after the loop: the last scene is appended, the result returned
parse_finish ==
  /\ pc = "loop"
  /\ i >= Len(lines)
  /\ heap' = IF current_scene # None THEN HeapFinalized ELSE heap
  /\ scenes' = FinalScenes(scenes, current_scene)
  /\ pc' = IF scenes' = <<>> THEN "raise_no_scenes" ELSE "returned"
  /\ UNCHANGED <<script_text, lines, i, current_scene, scene_counter, opened_at>>
  /\ UNCHANGED outside_parser

Next ==
  \/ parse_start
  \/ blank_line
  \/ scene_marker
  \/ content_line
  \/ parse_finish

Spec == Init /\ [][Next]_vars

\* the lines of the termination check: one line of each class the loop
\* tells apart
PassLines == {
  <<>>,                                                      \* ""
  <<"s","c","e","n","e"," ","0","2">>,                       \* "scene 02"
  <<"N","a","r","r","a","t","i","o","n",":"," ","n">>,       \* "Narration: n"
  <<"B","o",":"," ","y","o">>,                               \* "Bo: yo"
  <<"V","i","s","u","a","l",":"," ","v">>,                   \* "Visual: v"
  <<"D","u","r","a","t","i","o","n",":"," ","5">>,           \* "Duration: 5"
  <<"p","q">> }                                              \* "pq"

PassScripts ==
  { Join(ls) : ls \in UNION { [1..n -> PassLines] : n \in 1..MaxLines } }

InitTerminates ==
  /\ script_text \in PassScripts
  /\ lines = <<>>
  /\ i = 0
  /\ current_scene = None
  /\ scene_counter = 0
  /\ scenes = <<>>
  /\ heap = <<>>
  /\ pc = "start"
  /\ opened_at = <<>>
  /\ RendererIdle
  /\ SynthesizerIdle
  /\ AssemblerIdle
  /\ RunIdle
  /\ ParseFileIdle

\* parse_script is one sequential call: while a statement is left to run,
\* the interpreter runs it
SpecTerminates == InitTerminates /\ [][Next]_vars /\ WF_vars(Next)

\* the value parse_script returns
Returned == [k \in 1..Len(scenes) |-> heap[scenes[k]]]

(***************************************************************************)
(* Properties of parse_script.                                             *)
(***************************************************************************)
Finished == pc \in {"returned", "raise_empty", "raise_no_scenes"}

\* the stripped text of the 1-based line n
LineAt(n) == Strip(lines[n])

\* scene k of the output was opened by a scene-marker line
OpenedByMarker(k) == MatchScene(LineAt(opened_at[k])).ok

\* C1: the k-th returned scene has the id "scene_" followed by k padded to
\* two digits, whatever number its marker line carries
C1_IdsFollowCounter ==
  pc = "returned" =>
    \A k \in 1..Len(Returned) : Returned[k].scene_id = SceneIdOf(k)

\* C2: no two returned scenes have the same scene_id
C2_IdsUnique ==
  pc = "returned" =>
    \A j, k \in 1..Len(Returned) :
      j # k => Returned[j].scene_id # Returned[k].scene_id

\* the input is empty or holds only whitespace and blank lines
InputBlank == \A k \in 1..Len(script_text) : script_text[k] \in Whitespace

\* C3: parse_script raises exactly on the empty and whitespace-only inputs,
\* and on every other input returns a non-empty list
C3_RaisesExactlyOnBlank ==
  Finished =>
    /\ (pc # "returned") <=> InputBlank
    /\ pc = "returned" => Len(Returned) > 0

C3_Witness ==
  /\ pc = "returned"
  /\ script_text[1] \in Whitespace
  /\ Len(Returned) > 0

\* C4: every opened scene is appended exactly once, in opening order and
\* completed, and no step changes a scene that is already in the output
C4_AppendedOnceThenFrozen ==
  /\ [](pc = "returned" =>
          /\ scenes = [k \in 1..Len(heap) |-> k]
          /\ \A k \in 1..Len(heap) : finalize_scene(heap[k], k) = heap[k])
  /\ [][/\ Len(scenes') >= Len(scenes)
        /\ SubSeq(scenes', 1, Len(scenes)) = scenes
        /\ \A k \in 1..Len(scenes) : heap'[scenes[k]] = heap[scenes[k]]]_vars

C4_Witness ==
  /\ pc = "returned"
  /\ Len(scenes) >= 2
  /\ heap[scenes[2]].dialogue # <<>>

\* C5: every returned scene has a non-empty description and a non-empty
\* list of non-empty prompts; a scene closed with no description gets
\* "Scene n", one closed with no prompt gets the list [description]
C5_DefaultsFilled ==
  /\ [](\A k \in 1..Len(scenes) :
          /\ heap[scenes[k]].description # <<>>
          /\ heap[scenes[k]].visual_prompts # <<>>
          /\ \A j \in 1..Len(heap[scenes[k]].visual_prompts) :
               heap[scenes[k]].visual_prompts[j] # <<>>)
  /\ [][\A k \in (Len(scenes) + 1)..Len(scenes') :
          LET before == heap[scenes'[k]]
              after == heap'[scenes'[k]]
          IN  /\ before.description = <<>> =>
                   after.description = <<"S","c","e","n","e"," ">> \o IntToStr(k)
              /\ before.description # <<>> =>
                   after.description = before.description
              /\ before.visual_prompts = <<>> =>
                   after.visual_prompts = <<after.description>>
              /\ before.visual_prompts # <<>> =>
                   after.visual_prompts = before.visual_prompts]_vars

C5_Witness ==
  /\ pc = "returned"
  /\ \E k \in 1..Len(Returned) :
       /\ ~OpenedByMarker(k)
       /\ Returned[k].description = <<"S","c","e","n","e"," ">> \o IntToStr(k)
       /\ Returned[k].visual_prompts = <<Returned[k].description>>
       /\ Returned[k].dialogue # <<>>

\* the lines from the one that opened scene k up to the next opening
FirstLineOf(k) == opened_at[k]

LastLineOf(k) == IF k < Len(opened_at) THEN opened_at[k + 1] - 1 ELSE Len(lines)

\* a dialogue line: not blank, not a marker, not narration, and an upper-case
\* letter followed by letters or spaces, a ':' and some text
IsDialogueLine(ln) ==
  /\ ln # <<>>
  /\ ~MatchScene(ln).ok
  /\ ~MatchNarration(ln).ok
  /\ MatchDialogue(ln).ok

FirstColon(ln) ==
  CHOOSE p \in 1..Len(ln) : ln[p] = ":" /\ \A j \in 1..(p - 1) : ln[j] # ":"

DialogueEntryOf(ln) ==
  [speaker |-> Strip(SubSeq(ln, 1, FirstColon(ln) - 1)),
   text |-> Strip(Drop(ln, FirstColon(ln)))]

\* the entries of the dialogue lines among lines a..b, in input order
RECURSIVE DialogueIn(_, _)
DialogueIn(a, b) ==
  IF a > b THEN <<>>
  ELSE (IF IsDialogueLine(LineAt(a)) THEN <<DialogueEntryOf(LineAt(a))>> ELSE <<>>)
       \o DialogueIn(a + 1, b)

\* the distinct speakers of a list of entries, in order of first appearance
RECURSIVE FirstAppearances(_)
FirstAppearances(es) ==
  IF es = <<>> THEN <<>>
  ELSE LET front == FirstAppearances(SubSeq(es, 1, Len(es) - 1))
           sp == es[Len(es)].speaker
       IN  IF \E j \in 1..Len(front) : front[j] = sp THEN front
           ELSE Append(front, sp)

\* C6: a returned scene's dialogue is the entries of its dialogue lines in
\* input order, and its characters are the distinct speakers in order of
\* first appearance
C6_DialogueAndCharacters ==
  pc = "returned" =>
    \A k \in 1..Len(Returned) :
      /\ Returned[k].dialogue = DialogueIn(FirstLineOf(k), LastLineOf(k))
      /\ Returned[k].characters = FirstAppearances(Returned[k].dialogue)

C6_Witness ==
  /\ pc = "returned"
  /\ \E k \in 1..Len(Returned) :
       /\ Len(Returned[k].dialogue) = 3
       /\ Len(Returned[k].characters) = 2

\* C7: a line with the 'Visual' prefix (any case), an optional ':' or '-'
\* and trailing text, read while a scene is open, appends the trailing text
\* to that scene's visual_prompts and adds no dialogue entry
C7_VisualLineAppendsPrompt ==
  [][(InLoop /\ current_scene # None /\ MatchVisual(Line).ok) =>
       /\ current_scene' = current_scene
       /\ heap'[current_scene].visual_prompts =
            Append(heap[current_scene].visual_prompts, Strip(MatchVisual(Line).g1))
       /\ heap'[current_scene].dialogue = heap[current_scene].dialogue]_vars

\* C8: a line with the 'Duration' prefix (any case), an optional ':' or
\* '-', a decimal number and an optional unit, read while a scene is open,
\* sets that scene's duration_hint to the number
C8_DurationLineSetsHint ==
  [][(InLoop /\ current_scene # None /\ MatchDuration(Line).ok) =>
       /\ current_scene' = current_scene
       /\ heap'[current_scene].duration_hint =
            <<ParseFloat(MatchDuration(Line).g1)>>]_vars

\* C9: a narration line replaces the description of the open scene with
\* its trailing text, and adds that text as a prompt only when the scene
\* has no prompt yet
C9_NarrationOverwrites ==
  [][(InLoop /\ MatchNarration(Line).ok) =>
       LET fresh == current_scene = None
           prompts == IF fresh THEN <<>> ELSE heap[current_scene].visual_prompts
           text == Strip(Drop(Line, 10))
           after == heap'[current_scene']
       IN  /\ current_scene' # None
           /\ ~fresh => current_scene' = current_scene
           /\ after.description = text
           /\ after.visual_prompts =
                IF prompts = <<>> THEN <<text>> ELSE prompts]_vars

C9_Witness ==
  /\ pc = "loop"
  /\ i >= 1
  /\ MatchNarration(LineAt(i)).ok
  /\ current_scene # None
  /\ OpenedByMarker(current_scene)
  /\ heap[current_scene].description = Strip(Drop(LineAt(i), 10))
  /\ Len(heap[current_scene].visual_prompts) = 1
  /\ heap[current_scene].visual_prompts[1] # heap[current_scene].description

\* a non-blank line that none of the five patterns matches
NoPattern(ln) ==
  /\ ln # <<>>
  /\ ~MatchScene(ln).ok
  /\ ~MatchNarration(ln).ok
  /\ ~MatchDialogue(ln).ok
  /\ ~MatchVisual(ln).ok
  /\ ~MatchDuration(ln).ok

\* C10: a line matching no pattern becomes the description when the scene
\* has none (and a prompt when it also has no prompt); otherwise it is
\* appended to the description after one space and the prompts are kept
C10_FallbackLine ==
  [][(InLoop /\ NoPattern(Line)) =>
       LET fresh == current_scene = None
           desc == IF fresh THEN <<>> ELSE heap[current_scene].description
           prompts == IF fresh THEN <<>> ELSE heap[current_scene].visual_prompts
           after == heap'[current_scene']
       IN  /\ current_scene' # None
           /\ ~fresh => current_scene' = current_scene
           /\ IF desc = <<>>
              THEN /\ after.description = Line
                   /\ after.visual_prompts =
                        IF prompts = <<>> THEN <<Line>> ELSE prompts
              ELSE /\ after.description = desc \o <<" ">> \o Line
                   /\ after.visual_prompts = prompts]_vars

C10_Witness ==
  /\ pc = "loop"
  /\ i >= 1
  /\ NoPattern(LineAt(i))
  /\ current_scene # None
  /\ Len(heap[current_scene].description) > Len(LineAt(i)) + 1
  /\ SubSeq(heap[current_scene].description,
            Len(heap[current_scene].description) - Len(LineAt(i)),
            Len(heap[current_scene].description)) = <<" ">> \o LineAt(i)
  /\ heap[current_scene].visual_prompts = <<>>

\* a line that reaches the duration branch: not blank, not a marker, not
\* narration, not dialogue, and matching the duration pattern
SetsDuration(ln) ==
  /\ ln # <<>>
  /\ ~MatchScene(ln).ok
  /\ ~MatchNarration(ln).ok
  /\ ~MatchDialogue(ln).ok
  /\ ~MatchVisual(ln).ok
  /\ MatchDuration(ln).ok

\* C11: a returned scene has the key duration_hint exactly when one of its
\* lines set it, never with a null value, and never has the key start_cue
C11_OptionalKeys ==
  pc = "returned" =>
    \A k \in 1..Len(Returned) :
      /\ "start_cue" \notin Returned[k].keys
      /\ "duration_hint" \in Returned[k].keys <=>
           \E n \in FirstLineOf(k)..LastLineOf(k) : SetsDuration(LineAt(n))
      /\ "duration_hint" \in Returned[k].keys =>
           Returned[k].duration_hint # Unset

C11_Witness ==
  /\ pc = "returned"
  /\ Len(Returned) >= 2
  /\ "duration_hint" \in Returned[1].keys
  /\ "duration_hint" \notin Returned[2].keys

\* C19: a scene-marker line read while a scene is open completes that scene
\* and appends it before the new scene is opened, and every step changes
\* no dictionary other than the one open when it starts
C19_MarkerClosesOpenScene ==
  [][/\ (InLoop /\ Line # <<>> /\ MatchScene(Line).ok /\ current_scene # None) =>
          /\ scenes' = Append(scenes, current_scene)
          /\ heap'[current_scene] = finalize_scene(heap[current_scene], scene_counter)
          /\ Len(heap') = Len(heap) + 1
          /\ current_scene' = Len(heap')
          /\ \A k \in 1..Len(scenes') : scenes'[k] # current_scene'
     /\ \A a \in 1..Len(heap) : a # current_scene => heap'[a] = heap[a]]_vars

C19_Witness ==
  /\ pc = "loop"
  /\ i >= 3
  /\ MatchScene(LineAt(i - 1)).ok
  /\ LineAt(i - 2) # <<>>
  /\ ~MatchScene(LineAt(i - 2)).ok
  /\ ~MatchScene(LineAt(i)).ok
  /\ LineAt(i) # <<>>
  /\ Len(scenes) = 1
  /\ current_scene = 2

\* C20: a scene opened by a marker line is described by the marker's title
\* when it has one and otherwise by "Scene " and the value of the scene
\* counter for that scene
C20_MarkerDescription ==
  [][(InLoop /\ Line # <<>> /\ MatchScene(Line).ok) =>
       LET title == Strip(MatchScene(Line).g2)
       IN  heap'[current_scene'].description =
             IF title # <<>> THEN title
             ELSE <<"S","c","e","n","e"," ">> \o IntToStr(scene_counter')]_vars

\* the line about to be read is neither blank nor a scene marker
ContentLineNext == InLoop /\ Line # <<>> /\ ~MatchScene(Line).ok

\* the dictionary a scene has when it is opened without a marker: its id
\* from the counter, everything else empty
ImplicitScene(counter) ==
  [keys |-> {"scene_id", "start_cue", "description", "characters", "dialogue",
             "visual_prompts", "duration_hint"},
   scene_id |-> <<"s","c","e","n","e","_">> \o Pad2(counter),
   start_cue |-> <<>>, description |-> <<>>, characters |-> <<>>,
   dialogue |-> <<>>, visual_prompts |-> <<>>, duration_hint |-> <<>>]

\* C21: a non-blank, non-marker line read while no scene is open opens
\* exactly one scene, numbered by the incremented counter and with an empty
\* description, and that scene then holds what the line's rule puts into
\* it, which is never nothing
C21_ImplicitSceneTakesLine ==
  [][(ContentLineNext /\ current_scene = None) =>
       /\ scene_counter' = scene_counter + 1
       /\ Len(heap') = Len(heap) + 1
       /\ SubSeq(heap', 1, Len(heap)) = heap
       /\ current_scene' = Len(heap')
       /\ scenes' = scenes
       /\ heap'[current_scene'] = ApplyLine(ImplicitScene(scene_counter'), Line)
       /\ heap'[current_scene'] # ImplicitScene(scene_counter')]_vars

\* a scene was opened by a dialogue line and holds that line's entry
C21_Witness ==
  /\ pc = "loop"
  /\ current_scene # None
  /\ ~OpenedByMarker(current_scene)
  /\ opened_at[current_scene] = i
  /\ heap[current_scene].description = <<>>
  /\ Len(heap[current_scene].dialogue) = 1

\* C22: a blank line leaves the counter alone; it closes the open scene
\* when there is one, appending it to the output, and otherwise changes
\* neither the output nor any scene
C22_BlankLineOnlyCloses ==
  [][(InLoop /\ Line = <<>>) =>
       /\ scene_counter' = scene_counter
       /\ current_scene' = None
       /\ Len(heap') = Len(heap)
       /\ IF current_scene # None
          THEN scenes' = Append(scenes, current_scene)
          ELSE scenes' = scenes /\ heap' = heap]_vars

\* two blank lines in a row were read after one scene: one scene in the
\* output, the counter at one, no scene open
C22_Witness ==
  /\ pc = "loop"
  /\ i = 3
  /\ LineAt(2) = <<>>
  /\ LineAt(3) = <<>>
  /\ Len(scenes) = 1
  /\ scene_counter = 1
  /\ current_scene = None

\* the line is 'Narration:', in any case, followed by text
NarrationForm(line) ==
  /\ Len(line) > 10
  /\ LowerStr(SubSeq(line, 1, 10)) = <<"n","a","r","r","a","t","i","o","n",":">>

\* the dialogue and the characters of the scene at address a of heap h,
\* empty when the scene does not exist yet
SpokenIn(h, a) ==
  IF a \in 1..Len(h) THEN <<h[a].dialogue, h[a].characters>> ELSE << <<>>, <<>> >>

\* C23: a line 'Narration: <text>' adds no dialogue entry and no character
\* to the scene it is applied to; it sets the description to its text
C23_NarrationNeverDialogue ==
  [][(ContentLineNext /\ NarrationForm(Line)) =>
       /\ SpokenIn(heap', current_scene') = SpokenIn(heap, current_scene')
       /\ heap'[current_scene'].description = Strip(Drop(Line, 10))]_vars

\* a narration line was read into a scene that has no dialogue
C23_Witness ==
  /\ pc = "loop"
  /\ i >= 1
  /\ NarrationForm(LineAt(i))
  /\ current_scene # None
  /\ heap[current_scene].description = <<"n">>
  /\ heap[current_scene].dialogue = <<>>
  /\ heap[current_scene].characters = <<>>

\* the scene a content line is applied to, as it is before the line
SceneBefore ==
  IF current_scene = None THEN ImplicitScene(scene_counter + 1)
  ELSE heap[current_scene]

\* C24: a content line changes only the fields of the rule that handles
\* it: the dialogue rule only characters and dialogue, the visual-prompt
\* rule only visual_prompts, the duration rule only duration_hint, the
\* narration and fallback rules only description and visual_prompts; the
\* scene_id never changes
C24_OnlyTheRulesFields ==
  [][ContentLineNext =>
       LET old == SceneBefore
           new == heap'[current_scene']
           rule == Classify(Line)
       IN  /\ new.scene_id = old.scene_id
           /\ rule = "dialogue" =>
                new = [old EXCEPT !.characters = new.characters,
                                  !.dialogue = new.dialogue]
           /\ rule = "visual" =>
                new = [old EXCEPT !.visual_prompts = new.visual_prompts]
           /\ rule = "duration" =>
                new = [old EXCEPT !.duration_hint = new.duration_hint]
           /\ rule \in {"narration", "fallback"} =>
                new = [old EXCEPT !.description = new.description,
                                  !.visual_prompts = new.visual_prompts]]_vars

\* the visual-prompt rule was applied to a scene that has a description
\* of its own and a dialogue entry
C24_Witness ==
  /\ pc = "loop"
  /\ i = 3
  /\ Classify(LineAt(3)) = "visual"
  /\ current_scene # None
  /\ Len(heap[current_scene].dialogue) = 1
  /\ heap[current_scene].description = <<"T">>
  /\ heap[current_scene].visual_prompts # <<>>

\* C31: while the loop runs the counter is the number of scenes in the
\* output plus one when a scene is open; no step lowers it, it grows by
\* one exactly in the steps that open a scene, and at the return it is
\* the number of scenes returned
C31_CounterCountsScenes ==
  /\ [](pc = "loop" =>
          scene_counter = Len(scenes) + (IF current_scene # None THEN 1 ELSE 0))
  /\ [][/\ scene_counter' >= scene_counter
        /\ scene_counter' - scene_counter = Len(heap') - Len(heap)
        /\ scene_counter' - scene_counter <= 1]_vars
  /\ [](pc = "returned" => scene_counter = Len(Returned))

\* three scenes were returned, the first opened without a marker and the
\* second by a marker
C31_Witness ==
  /\ pc = "returned"
  /\ scene_counter = 3
  /\ Len(Returned) = 3
  /\ ~OpenedByMarker(1)
  /\ OpenedByMarker(2)

\* C33: every call of parse_script ends; each iteration of the loop, the
\* one that opens a scene without a marker included, moves the line index
\* forward by exactly one, so the lines are taken once each and in order
\* and the loop is left with every line taken
C33_SingleForwardPass ==
  /\ <>Finished
  /\ [][InLoop => i' = i + 1]_vars
  /\ [](pc \in {"returned", "raise_no_scenes"} => i = Len(lines))

\* a three-line script whose first line opened a scene without a marker
\* was read to its end
C33_Witness ==
  /\ pc = "returned"
  /\ Len(lines) = 3
  /\ i = 3
  /\ opened_at # <<>>
  /\ opened_at[1] = 1
  /\ ~OpenedByMarker(1)

(***************************************************************************)
(* The frame renderer: generate_frames and _generate_scene_frames          *)
(* (src/src/pipeline/visual_gen.py).  A directory is a function from file  *)
(* names to images, the output tree a function from directory names to     *)
(* directories; an image is the record of the texts drawn on it.           *)
(***************************************************************************)
\* largest number of scenes handed to one call of generate_frames
MaxScenes == 3

\* the frame rates the model calls generate_frames with
FpsValues == {1, 24}

\* str.upper() of one character
ToUpper(c) == IF IsLower(c) THEN UpperCase[CHOOSE k \in 1..26 : LowerCase[k] = c] ELSE c

\* scene_id.upper().replace('_', ' ')
TitleOf(scene_id) ==
  [k \in 1..Len(scene_id) |-> IF scene_id[k] = "_" THEN " " ELSE ToUpper(scene_id[k])]

\* format(n, '06d')
Pad6(n) ==
  LET digits == IntToStr(n)
  IN  IF Len(digits) >= 6 THEN digits
      ELSE SubSeq(<<"0","0","0","0","0">>, 1, 6 - Len(digits)) \o digits

PngSuffix == <<".","p","n","g">>

\* f"frame_{i:06d}.png"
FrameName(n) == <<"f","r","a","m","e","_">> \o Pad6(n) \o PngSuffix

\* the directory os.path.join(out_dir, '.cache')
CacheDir == <<".","c","a","c","h","e">>

\* _get_cache_key(prompt): the digest of the prompt, taken as free of
\* collisions and written as a tag in front of the text it digests
get_cache_key(prompt) == <<"#">> \o prompt

\* f"{cache_key}.png"
CacheFileName(prompt) == get_cache_key(prompt) \o PngSuffix

\* _render_fallback_frame(prompt, scene_info): the title, the prompt and,
\* when it differs from the prompt, the description
render_fallback_frame(prompt, scene_info) ==
  [title |-> TitleOf(IF "scene_id" \in scene_info.keys THEN scene_info.scene_id
                     ELSE <<"S","c","e","n","e">>),
   prompt |-> prompt,
   description |->
     IF /\ "description" \in scene_info.keys
        /\ scene_info.description # <<>>
        /\ scene_info.description # prompt
     THEN scene_info.description ELSE <<>>]

\* an empty directory
EmptyDir == <<>>

\* os.makedirs(dir, exist_ok=True) in the output tree
MakeDir(tree, name) ==
  IF name \in DOMAIN tree THEN tree
  ELSE [d \in DOMAIN tree \cup {name} |-> IF d = name THEN EmptyDir ELSE tree[d]]

\* image.save(path): the files of `names' in the directory are (over)written
WriteFiles(tree, dir, names, image) ==
  [tree EXCEPT ![dir] =
     [f \in DOMAIN tree[dir] \cup names |-> IF f \in names THEN image ELSE tree[dir][f]]]

\* scene.get('duration_hint', 2.0), in thousandths of a second
DurationOf(scene) ==
  IF "duration_hint" \in scene.keys THEN scene.duration_hint[1] ELSE 2000

\* max(1, int(duration * fps_hint))
NumFrames(scene, fps) ==
  LET n == (DurationOf(scene) * fps) \div 1000
  IN  IF n < 1 THEN 1 ELSE n

\* scene.get('scene_id', 'scene_unknown')
SceneDirOf(scene) ==
  IF "scene_id" \in scene.keys THEN scene.scene_id
  ELSE <<"s","c","e","n","e","_","u","n","k","n","o","w","n">>

\* the prompt list generate_frames passes on, and its first element
PrimaryPrompt(scene) ==
  IF "visual_prompts" \in scene.keys /\ scene.visual_prompts # <<>>
  THEN scene.visual_prompts[1]
  ELSE IF "description" \in scene.keys THEN scene.description
  ELSE <<"S","c","e","n","e">>

\* whether _generate_scene_frames finds the base image in the cache
CacheHit(tree, prompt) == CacheFileName(prompt) \in DOMAIN tree[CacheDir]

\* a scene dictionary as parse_script returns it
FinalizedScene(id, desc, prompt, duration) ==
  [keys |-> {"scene_id", "description", "characters", "dialogue", "visual_prompts"}
            \cup (IF duration # Unset THEN {"duration_hint"} ELSE {}),
   scene_id |-> id, start_cue |-> Unset, description |-> desc,
   characters |-> <<>>, dialogue |-> <<>>, visual_prompts |-> <<prompt>>,
   duration_hint |-> duration]

\* the scenes the model renders: ids and texts as the parser produces them
RenderScenes ==
  { FinalizedScene(SceneIdOf(n), desc, prompt, duration) :
      n \in {1, 2}, desc \in {<<"d">>, <<"p">>}, prompt \in {<<"p">>, <<"q">>},
      duration \in {Unset, <<400>>} }

ParserIdle ==
  /\ script_text = <<>>
  /\ lines = <<>>
  /\ i = 0
  /\ current_scene = None
  /\ scene_counter = 0
  /\ scenes = <<>>
  /\ heap = <<>>
  /\ pc = "idle"
  /\ opened_at = <<>>

InitRender ==
  /\ ParserIdle
  /\ data_scenes \in UNION { [1..n -> RenderScenes] : n \in 0..MaxScenes }
  /\ fps_hint \in FpsValues
  /\ scene_idx = 0
  /\ out_tree = <<>>
  /\ gf_pc = "start"
  /\ rendered = <<>>
  /\ gf_calls = 1
  /\ SynthesizerIdle
  /\ AssemblerIdle
  /\ RunIdle
  /\ ParseFileIdle

\* the checks and the directories made before the loop
gen_start ==
  /\ gf_pc = "start"
  /\ IF data_scenes = <<>>
     THEN /\ gf_pc' = "raise_no_scenes"
          /\ out_tree' = out_tree
     ELSE /\ gf_pc' = "loop"
          /\ out_tree' = MakeDir(out_tree, CacheDir)
  /\ scene_idx' = 0
  /\ UNCHANGED <<data_scenes, fps_hint, rendered, gf_calls>>
  /\ UNCHANGED outside_renderer

\* gen_scene drawing and caching the base image whether or not it is cached
gen_scene_AlwaysRenders ==
  /\ gf_pc = "loop"
  /\ scene_idx < Len(data_scenes)
  /\ LET scene == data_scenes[scene_idx + 1]
         scene_dir == SceneDirOf(scene)
         num_frames == NumFrames(scene, fps_hint)
         primary_prompt == PrimaryPrompt(scene)
         base_frame == render_fallback_frame(primary_prompt, scene)
         t1 == MakeDir(out_tree, scene_dir)
         t2 == WriteFiles(t1, CacheDir, {CacheFileName(primary_prompt)}, base_frame)
     IN  /\ out_tree' = WriteFiles(t2, scene_dir,
                                   {FrameName(n) : n \in 1..num_frames}, base_frame)
         /\ rendered' = Append(rendered, scene_idx + 1)
  /\ scene_idx' = scene_idx + 1
  /\ UNCHANGED <<data_scenes, fps_hint, gf_pc, gf_calls>>
  /\ UNCHANGED outside_renderer

\* one iteration of the loop: the scene's directory, its base image from
\* the cache or newly drawn and cached, and its numbered frames
gen_scene ==
  /\ gf_pc = "loop"
  /\ scene_idx < Len(data_scenes)
  /\ LET scene == data_scenes[scene_idx + 1]
         scene_dir == SceneDirOf(scene)
         num_frames == NumFrames(scene, fps_hint)
         primary_prompt == PrimaryPrompt(scene)
         hit == CacheHit(out_tree, primary_prompt)
         base_frame == IF hit THEN out_tree[CacheDir][CacheFileName(primary_prompt)]
                       ELSE render_fallback_frame(primary_prompt, scene)
         t1 == MakeDir(out_tree, scene_dir)
         t2 == IF hit THEN t1
               ELSE WriteFiles(t1, CacheDir, {CacheFileName(primary_prompt)}, base_frame)
     IN  /\ out_tree' = WriteFiles(t2, scene_dir,
                                   {FrameName(n) : n \in 1..num_frames}, base_frame)
         /\ rendered' = IF hit THEN rendered ELSE Append(rendered, scene_idx + 1)
  /\ scene_idx' = scene_idx + 1
  /\ UNCHANGED <<data_scenes, fps_hint, gf_pc, gf_calls>>
  /\ UNCHANGED outside_renderer

\* the loop is over
gen_done ==
  /\ gf_pc = "loop"
  /\ scene_idx >= Len(data_scenes)
  /\ gf_pc' = "done"
  /\ UNCHANGED <<data_scenes, fps_hint, scene_idx, out_tree, rendered, gf_calls>>
  /\ UNCHANGED outside_renderer

NextRender ==
  \/ gen_start
  \/ gen_scene
  \/ gen_done

SpecRender == InitRender /\ [][NextRender]_vars

(***************************************************************************)
(* Further calls of generate_frames on the output directory of an earlier  *)
(* call: the tree is kept, the rest starts anew.                           *)
(***************************************************************************)
\* largest number of calls on one output directory
MaxCalls == 2

\* the scenes of these calls: two ids, two prompts, 0.4 s or the default
CallScenes ==
  { FinalizedScene(SceneIdOf(n), <<"d">>, prompt, duration) :
      n \in {1, 2}, prompt \in {<<"p">>, <<"q">>}, duration \in {Unset, <<400>>} }

\* the scene lists of these calls: every list of one or two of the scenes
CallInputs == { <<a>> : a \in CallScenes } \cup { <<a, b>> : a, b \in CallScenes }

InitRenderAgain ==
  /\ ParserIdle
  /\ data_scenes \in CallInputs
  /\ fps_hint \in FpsValues
  /\ scene_idx = 0
  /\ out_tree = <<>>
  /\ gf_pc = "start"
  /\ rendered = <<>>
  /\ gf_calls = 1
  /\ SynthesizerIdle
  /\ AssemblerIdle
  /\ RunIdle
  /\ ParseFileIdle

\* the next call of generate_frames with the same out_dir
gen_again ==
  /\ gf_pc = "done"
  /\ gf_calls < MaxCalls
  /\ gf_calls' = gf_calls + 1
  /\ data_scenes' \in CallInputs
  /\ fps_hint' \in FpsValues
  /\ scene_idx' = 0
  /\ rendered' = <<>>
  /\ gf_pc' = "start"
  /\ UNCHANGED out_tree
  /\ UNCHANGED outside_renderer

NextRenderAgain ==
  \/ gen_start
  \/ gen_scene
  \/ gen_done
  \/ gen_again

SpecRenderAgain == InitRenderAgain /\ [][NextRenderAgain]_vars

\* the cache directory of a tree, empty when it has not been made
CacheOf(tree) == IF CacheDir \in DOMAIN tree THEN tree[CacheDir] ELSE EmptyDir

\* the cache key of the scene the loop is about to render is in the cache
NextKeyCached ==
  /\ gf_pc = "loop"
  /\ scene_idx < Len(data_scenes)
  /\ (<<"#">> \o data_scenes[scene_idx + 1].visual_prompts[1] \o <<".","p","n","g">>)
       \in DOMAIN CacheOf(out_tree)

\* C25: over any sequence of calls on one output directory no step
\* removes or changes a cache entry, and rendering a scene whose key is in
\* the cache leaves the cache as it is
C25_CacheAppendOnly ==
  [][/\ \A f \in DOMAIN CacheOf(out_tree) :
          /\ f \in DOMAIN CacheOf(out_tree')
          /\ CacheOf(out_tree')[f] = CacheOf(out_tree)[f]
     /\ NextKeyCached => CacheOf(out_tree') = CacheOf(out_tree)]_vars

\* a second call has rendered a scene whose prompt an earlier call cached
\* for a scene with another id, and the entry is still the earlier one
C25_Witness ==
  /\ gf_calls = 2
  /\ gf_pc = "done"
  /\ rendered = <<>>
  /\ \E k \in 1..Len(data_scenes) :
       CacheOf(out_tree)[CacheFileName(data_scenes[k].visual_prompts[1])].title
         # TitleOf(data_scenes[k].scene_id)

\* C12: after generate_frames on a fresh directory, the directory of every
\* scene holds exactly the files frame_000001 .. frame_N, with
\* N = max(1, floor(d * fps)) and d the duration hint or 2.0
C12_FrameFilesPerScene ==
  gf_pc = "done" =>
    \A k \in 1..Len(data_scenes) :
      LET d == IF data_scenes[k].duration_hint = Unset THEN 2000
               ELSE data_scenes[k].duration_hint[1]
          floor == (d * fps_hint) \div 1000
          N == IF floor > 1 THEN floor ELSE 1
      IN  /\ data_scenes[k].scene_id \in DOMAIN out_tree
          /\ DOMAIN out_tree[data_scenes[k].scene_id] =
               { <<"f","r","a","m","e","_">> \o Pad6(n) \o <<".","p","n","g">> :
                   n \in 1..N }

\* C13: scenes with the same first prompt share one cache entry, only the
\* first of them has its placeholder drawn, and every frame in the
\* directory of each of them is the cached image
C13_SharedPromptOneCacheEntry ==
  gf_pc = "done" =>
    /\ DOMAIN out_tree[CacheDir] =
         { CacheFileName(data_scenes[k].visual_prompts[1]) : k \in 1..Len(data_scenes) }
    /\ \A k \in 1..Len(data_scenes) :
         LET prompt == data_scenes[k].visual_prompts[1]
             first == \A j \in 1..(k - 1) : data_scenes[j].visual_prompts[1] # prompt
             dir == out_tree[data_scenes[k].scene_id]
         IN  /\ (\E n \in 1..Len(rendered) : rendered[n] = k) <=> first
             /\ \A f \in DOMAIN dir : dir[f] = out_tree[CacheDir][CacheFileName(prompt)]

\* C30: the frames a scene's rendering writes are the placeholder drawn
\* from that scene's own id, first prompt and description, whether the
\* base image was drawn for it or taken from the cache
C30_FramesAreOwnPlaceholder ==
  [][(gf_pc = "loop" /\ scene_idx < Len(data_scenes)) =>
       LET scene == data_scenes[scene_idx + 1]
           own == render_fallback_frame(scene.visual_prompts[1], scene)
       IN  \A f \in DOMAIN out_tree'[scene.scene_id] :
             (\E n \in 1..NumFrames(scene, fps_hint) : f = FrameName(n)) =>
               out_tree'[scene.scene_id][f] = own]_vars

(***************************************************************************)
(* The speech synthesizer: synthesize, _synthesize_pyttsx3 and             *)
(* _synthesize_gtts (src/src/pipeline/audio_synth.py).  The two engines    *)
(* are outside the program: each call of one ends in one of the outcomes   *)
(* listed below, chosen by the environment.                                *)
(***************************************************************************)
\* longest text handed to synthesize
MaxText == 3

\* the characters of the texts
TextChars == {" ", "\t", "a"}

\* the texts the model calls synthesize with
Texts == UNION { [1..n -> TextChars] : n \in 0..MaxText }

\* the output paths the model calls synthesize with
OutPaths == { <<"a",".","w","a","v">>, <<"d","/","a",".","w","a","v">>,
              <<"d","/","a",".","m","p","3">> }

\* the current directory
CurDir == <<".">>

\* position of the last '/' of a path, 0 when it has none
LastSlash(path) ==
  IF \E k \in 1..Len(path) : path[k] = "/"
  THEN CHOOSE k \in 1..Len(path) :
         path[k] = "/" /\ \A j \in (k + 1)..Len(path) : path[j] # "/"
  ELSE 0

\* os.path.dirname(path)
Dirname(path) == IF LastSlash(path) = 0 THEN <<>> ELSE SubSeq(path, 1, LastSlash(path) - 1)

\* s.endswith(suffix)
EndsWith(s, suffix) ==
  /\ Len(s) >= Len(suffix)
  /\ SubSeq(s, Len(s) - Len(suffix) + 1, Len(s)) = suffix

\* s.replace(old, new), old not empty
RECURSIVE Replace(_, _, _)
Replace(s, old, new) ==
  IF Len(s) < Len(old) THEN s
  ELSE IF SubSeq(s, 1, Len(old)) = old
       THEN new \o Replace(Drop(s, Len(old)), old, new)
       ELSE <<s[1]>> \o Replace(Drop(s, 1), old, new)

WavSuffix == <<".","w","a","v">>

Mp3Suffix == <<".","m","p","3">>

\* mp3_path of _synthesize_gtts
Mp3Path(out_path) ==
  IF EndsWith(out_path, WavSuffix) THEN Replace(out_path, WavSuffix, Mp3Suffix)
  ELSE out_path

\* not text or not text.strip()
IsEmptyText(text) == text = <<>> \/ Strip(text) = <<>>

\* the directory synthesize makes sure of
OutDir(out_path) == IF Dirname(out_path) # <<>> THEN Dirname(out_path) ELSE CurDir

\* the exception of line 30
EmptyTextError == [type |-> "ValueError", msg |-> "Text input is empty"]

\* the ways _synthesize_pyttsx3 raises: the import or the engine fails
\* before anything is written, the engine fails part-way through its file,
\* or the engine ends without having written the file
PrimaryFailures ==
  { [error |-> [type |-> "ModuleNotFoundError", msg |-> "No module named 'pyttsx3'"],
     wrote |-> FALSE],
    [error |-> [type |-> "OSError", msg |-> "driver failed"], wrote |-> TRUE],
    [error |-> [type |-> "RuntimeError", msg |-> "pyttsx3 did not create output file"],
     wrote |-> FALSE] }

\* the ways _synthesize_gtts raises: gtts is not installed, the request
\* fails with or without an mp3 file begun, or the conversion to wav fails
SecondaryFailures(out_path) ==
  { [error |-> [type |-> "RuntimeError",
                msg |-> "gTTS not installed. Install with: pip install gtts"],
     left |-> {}],
    [error |-> [type |-> "gTTSError", msg |-> "Failed to connect"], left |-> {}],
    [error |-> [type |-> "gTTSError", msg |-> "Failed to connect"],
     left |-> {Mp3Path(out_path)}] }
  \cup
  IF Mp3Path(out_path) # out_path
  THEN { [error |-> [type |-> "RuntimeError",
                     msg |-> "ffmpeg not found. Cannot convert MP3 to WAV."],
          left |-> {Mp3Path(out_path)}] }
  ELSE {}

\* the exception of line 44
BothFailedError(e, e2) ==
  [type |-> "RuntimeError", msg |-> "Both pyttsx3 and gTTS failed.",
   pyttsx3 |-> e, gTTS |-> e2]

\* the ways a pass of _normalize_audio ends, each with the audio it
\* leaves in the file: the samples rescaled and written back; nothing to
\* do (no frames, silence, a sample width it does not handle); an
\* exception while reading or scaling, caught with the file untouched; an
\* exception while writing back, caught with the file untouched when it
\* could not be opened and cut short when it had been opened for writing
NormalizeOutcomes ==
  { [pass |-> "done", audio |-> "normalized"],
    [pass |-> "skipped", audio |-> "raw"],
    [pass |-> "failed_read", audio |-> "raw"],
    [pass |-> "failed_scale", audio |-> "raw"],
    [pass |-> "failed_write", audio |-> "raw"],
    [pass |-> "failed_write", audio |-> "damaged"] }

\* one call of an engine and the exception it ended with, <<>> for none
EngineCall(engine, raised) == [engine |-> engine, raised |-> raised]

InitSynth ==
  /\ ParserIdle
  /\ RendererIdle
  /\ AssemblerIdle
  /\ RunIdle
  /\ ParseFileIdle
  /\ syn_text \in Texts
  /\ syn_out_path \in OutPaths
  /\ syn_pc = "start"
  /\ syn_calls = <<>>
  /\ syn_error = <<>>
  /\ syn_result = <<>>
  /\ syn_fs \in { {CurDir}, {CurDir, <<"d">>} }
  /\ syn_audio = "none"
  /\ syn_norm = "none"

\* lines 29-33: the check of the text, then the output directory
syn_check_NoCheck ==
  /\ syn_pc = "start"
  /\ syn_fs' = syn_fs \cup {OutDir(syn_out_path)}
  /\ syn_pc' = "primary"
  /\ UNCHANGED <<syn_text, syn_out_path, syn_calls, syn_error, syn_result,
                 syn_audio, syn_norm>>
  /\ UNCHANGED outside_synthesizer

syn_check ==
  /\ syn_pc = "start"
  /\ IF IsEmptyText(syn_text)
     THEN /\ syn_pc' = "raise_empty"
          /\ syn_result' = <<EmptyTextError>>
          /\ syn_fs' = syn_fs
     ELSE /\ syn_pc' = "primary"
          /\ syn_result' = syn_result
          /\ syn_fs' = syn_fs \cup {OutDir(syn_out_path)}
  /\ UNCHANGED <<syn_text, syn_out_path, syn_calls, syn_error, syn_audio, syn_norm>>
  /\ UNCHANGED outside_synthesizer

\* lines 36-40: the primary engine returns the path or raises
syn_primary ==
  /\ syn_pc = "primary"
  /\ \/ /\ syn_calls' = Append(syn_calls, EngineCall("pyttsx3", <<>>))
        /\ syn_fs' = syn_fs \cup {syn_out_path}
        /\ \E n \in NormalizeOutcomes :
             /\ syn_norm' = n.pass
             /\ syn_audio' = n.audio
        /\ syn_result' = <<syn_out_path>>
        /\ syn_error' = syn_error
        /\ syn_pc' = "returned"
     \/ \E f \in PrimaryFailures :
          /\ syn_calls' = Append(syn_calls, EngineCall("pyttsx3", <<f.error>>))
          /\ syn_fs' = IF f.wrote THEN syn_fs \cup {syn_out_path} ELSE syn_fs
          /\ syn_audio' = IF f.wrote THEN "damaged" ELSE syn_audio
          /\ syn_norm' = syn_norm
          /\ syn_error' = <<f.error>>
          /\ syn_result' = syn_result
          /\ syn_pc' = "secondary"
  /\ UNCHANGED <<syn_text, syn_out_path>>
  /\ UNCHANGED outside_synthesizer

\* lines 41-44: the secondary engine returns the path or raises
syn_secondary_FirstErrorOnly ==
  /\ syn_pc = "secondary"
  /\ \/ /\ syn_calls' = Append(syn_calls, EngineCall("gTTS", <<>>))
        /\ syn_fs' = syn_fs \cup {syn_out_path}
        /\ syn_audio' = "raw"
        /\ syn_result' = <<syn_out_path>>
        /\ syn_pc' = "returned"
     \/ \E f \in SecondaryFailures(syn_out_path) :
          /\ syn_calls' = Append(syn_calls, EngineCall("gTTS", <<f.error>>))
          /\ syn_fs' = syn_fs \cup f.left
          /\ syn_audio' = IF syn_out_path \in f.left THEN "damaged" ELSE syn_audio
          /\ syn_result' = <<BothFailedError(syn_error[1], syn_error[1])>>
          /\ syn_pc' = "raise_both"
  /\ UNCHANGED <<syn_text, syn_out_path, syn_error, syn_norm>>
  /\ UNCHANGED outside_synthesizer

syn_secondary ==
  /\ syn_pc = "secondary"
  /\ \/ /\ syn_calls' = Append(syn_calls, EngineCall("gTTS", <<>>))
        /\ syn_fs' = syn_fs \cup {syn_out_path}
        /\ syn_audio' = "raw"
        /\ syn_result' = <<syn_out_path>>
        /\ syn_pc' = "returned"
     \/ \E f \in SecondaryFailures(syn_out_path) :
          /\ syn_calls' = Append(syn_calls, EngineCall("gTTS", <<f.error>>))
          /\ syn_fs' = syn_fs \cup f.left
          /\ syn_audio' = IF syn_out_path \in f.left THEN "damaged" ELSE syn_audio
          /\ syn_result' = <<BothFailedError(syn_error[1], f.error)>>
          /\ syn_pc' = "raise_both"
  /\ UNCHANGED <<syn_text, syn_out_path, syn_error, syn_norm>>
  /\ UNCHANGED outside_synthesizer

NextSynth ==
  \/ syn_check
  \/ syn_primary
  \/ syn_secondary

SpecSynth == InitSynth /\ [][NextSynth]_vars

\* the call of synthesize is over
SynthFinished == syn_pc \in {"returned", "raise_empty", "raise_both"}

\* the k-th engine call was made and raised
EngineFailed(k) == k <= Len(syn_calls) /\ syn_calls[k].raised # <<>>

\* C14: with a non-empty text the primary engine is tried first, the
\* secondary engine is invoked exactly when the primary raised, the call
\* raises exactly when both raised, with an error that carries both
\* exceptions, and otherwise it returns the requested output path
C14_PrimaryThenSecondary ==
  (~IsEmptyText(syn_text) /\ SynthFinished) =>
    /\ Len(syn_calls) \in {1, 2}
    /\ syn_calls[1].engine = "pyttsx3"
    /\ \A k \in 2..Len(syn_calls) : syn_calls[k].engine = "gTTS"
    /\ (\E k \in 1..Len(syn_calls) : syn_calls[k].engine = "gTTS") <=> EngineFailed(1)
    /\ syn_pc = "raise_both" <=> (EngineFailed(1) /\ EngineFailed(2))
    /\ syn_pc = "raise_both" =>
         /\ syn_result[1].pyttsx3 = syn_calls[1].raised[1]
         /\ syn_result[1].gTTS = syn_calls[2].raised[1]
    /\ syn_pc # "raise_both" =>
         /\ syn_pc = "returned"
         /\ syn_result = <<syn_out_path>>

\* both engines raised and the call raised with both exceptions
C14_Witness ==
  /\ syn_pc = "raise_both"
  /\ ~IsEmptyText(syn_text)
  /\ Len(syn_calls) = 2
  /\ syn_result[1].pyttsx3 # syn_result[1].gTTS

\* C15: a call with an empty or whitespace-only text raises the empty-text
\* error at its first step, with no engine invoked and the directories
\* and files left as they were
C15_EmptyTextRaisesFirst ==
  [][(syn_pc = "start" /\ IsEmptyText(syn_text)) =>
       /\ syn_pc' = "raise_empty"
       /\ syn_result' = <<EmptyTextError>>
       /\ syn_calls' = <<>>
       /\ syn_fs' = syn_fs]_vars

\* a whitespace-only text was refused while the directory of the output
\* path did not exist
C15_Witness ==
  /\ syn_pc = "raise_empty"
  /\ syn_text # <<>>
  /\ syn_calls = <<>>
  /\ Dirname(syn_out_path) # <<>>
  /\ Dirname(syn_out_path) \notin syn_fs
  /\ syn_out_path \notin syn_fs

\* C26: a call of synthesize that returns has run the normalization pass
\* on the audio, whichever engine produced it
C26_NormalizedBeforeReturn ==
  syn_pc = "returned" => syn_norm # "none"

\* the normalization pass raised inside, at whatever point
NormalizationFailed == syn_norm \in {"failed_read", "failed_scale", "failed_write"}

\* C27: when the normalization pass has failed, synthesize has returned
\* all the same and the file holds the audio the engine wrote
C27_FailedPassLeavesAudio ==
  NormalizationFailed => (syn_pc = "returned" /\ syn_audio = "raw")

(***************************************************************************)
(* The assembler: assemble and _check_ffmpeg                               *)
(* (src/src/pipeline/assembler.py).  The muxing tool is outside the        *)
(* program: whether it is installed, and how a run of it ends, are chosen  *)
(* by the environment.                                                     *)
(***************************************************************************)
\* the files the model puts under frames_dir, as paths relative to it
SamplePaths ==
  { <<"a",".","p","n","g">>,
    <<"B",".","P","N","G">>,
    <<"s","/","c",".","j","p","g">>,
    <<"s","/","d",".","t","x","t">>,
    <<".","c","a","c","h","e","/","e",".","J","P","E","G">>,
    <<"t",".","p","n","g","/","f">> }

\* ord(c) for the characters of the paths
Ord(c) ==
  IF IsDigit(c) THEN 48 + DigitVal(c)
  ELSE IF IsUpper(c) THEN 64 + (CHOOSE k \in 1..26 : UpperCase[k] = c)
  ELSE IF IsLower(c) THEN 96 + (CHOOSE k \in 1..26 : LowerCase[k] = c)
  ELSE IF c = "." THEN 46
  ELSE IF c = "/" THEN 47
  ELSE IF c = "_" THEN 95
  ELSE 32

\* a < b for two strings, as sorted() compares them
RECURSIVE StrLess(_, _)
StrLess(a, b) ==
  IF b = <<>> THEN FALSE
  ELSE IF a = <<>> THEN TRUE
  ELSE IF a[1] # b[1] THEN Ord(a[1]) < Ord(b[1])
  ELSE StrLess(Drop(a, 1), Drop(b, 1))

\* sorted(paths)
RECURSIVE Sorted(_)
Sorted(paths) ==
  IF paths = {} THEN <<>>
  ELSE LET least == CHOOSE p \in paths : \A q \in paths \ {p} : StrLess(p, q)
       IN  <<least>> \o Sorted(paths \ {least})

\* the file name f of a path os.walk reaches
Basename(path) == Drop(path, LastSlash(path))

\* f.lower().endswith(('.png', '.jpg', '.jpeg'))
IsImageName(f) ==
  \/ EndsWith(LowerStr(f), <<".","p","n","g">>)
  \/ EndsWith(LowerStr(f), <<".","j","p","g">>)
  \/ EndsWith(LowerStr(f), <<".","j","p","e","g">>)

\* lines 15-20: the image files of the tree, sorted by path
FindFrames(tree) == Sorted({ path \in tree : IsImageName(Basename(path)) })

\* the file at out_path after a run of the encoder that failed: the tool
\* writes straight to out_path (-y), so the file is as before when the run
\* failed before opening it and incomplete otherwise
AfterFailedEncoding(out) == {out, "partial"}

InitAssemble ==
  /\ ParserIdle
  /\ RendererIdle
  /\ SynthesizerIdle
  /\ RunIdle
  /\ ParseFileIdle
  /\ asm_tree \in SUBSET SamplePaths
  /\ asm_tool \in BOOLEAN
  /\ asm_audio \in BOOLEAN
  /\ asm_pc = "start"
  /\ asm_frames = <<>>
  /\ asm_tmp = <<>>
  /\ asm_out \in {"absent", "old"}
  /\ asm_encoder = 0

\* lines 15-24: the walk of the tree, then the two checks
asm_scan_ToolFirst ==
  /\ asm_pc = "start"
  /\ asm_frames' = FindFrames(asm_tree)
  /\ asm_pc' = IF ~asm_tool THEN "raise_no_tool"
               ELSE IF asm_frames' = <<>> THEN "raise_no_frames"
               ELSE "copy"
  /\ UNCHANGED <<asm_tree, asm_tool, asm_audio, asm_tmp, asm_out, asm_encoder>>
  /\ UNCHANGED outside_assembler

asm_scan ==
  /\ asm_pc = "start"
  /\ asm_frames' = FindFrames(asm_tree)
  /\ asm_pc' = IF asm_frames' = <<>> THEN "raise_no_frames"
               ELSE IF ~asm_tool THEN "raise_no_tool"
               ELSE "copy"
  /\ UNCHANGED <<asm_tree, asm_tool, asm_audio, asm_tmp, asm_out, asm_encoder>>
  /\ UNCHANGED outside_assembler

\* lines 25-30 and 37-39: the frames are re-saved, numbered, into tmpdir,
\* or one of them cannot be opened as an image and tmpdir is removed
asm_copy ==
  /\ asm_pc = "copy"
  /\ \/ /\ asm_tmp' = asm_frames
        /\ asm_pc' = "encode"
     \/ /\ asm_tmp' = <<>>
        /\ asm_pc' = "raise_image"
  /\ UNCHANGED <<asm_tree, asm_tool, asm_audio, asm_frames, asm_out, asm_encoder>>
  /\ UNCHANGED outside_assembler

\* lines 31-39: one run of the encoding command, then tmpdir is removed
asm_encode ==
  /\ asm_pc = "encode"
  /\ asm_encoder' = asm_encoder + 1
  /\ asm_tmp' = <<>>
  /\ \/ /\ asm_out' = "complete"
        /\ asm_pc' = "returned"
     \/ /\ asm_out' \in AfterFailedEncoding(asm_out)
        /\ asm_pc' = "raise_encoder"
  /\ UNCHANGED <<asm_tree, asm_tool, asm_audio, asm_frames>>
  /\ UNCHANGED outside_assembler

NextAssemble ==
  \/ asm_scan
  \/ asm_copy
  \/ asm_encode

SpecAssemble == InitAssemble /\ [][NextAssemble]_vars

\* the tree holds no file whose name ends, in any case, in an image extension
NoImageFile ==
  ~ \E path \in asm_tree :
      \E ext \in { <<".","p","n","g">>, <<".","j","p","g">>, <<".","j","p","e","g">> } :
        EndsWith(LowerStr(path), ext)

\* the call raised without a run of the encoder and without a write to out_path
RaisedUntouched(raise_pc) ==
  /\ asm_pc' = raise_pc
  /\ asm_encoder' = 0
  /\ asm_out' = asm_out

\* C16 as stated: assemble raises the no-frames error whenever the tree has
\* no image file and the missing-tool error whenever the tool is
\* unavailable, in both cases with the encoder not run and out_path untouched
C16_NoFramesOrNoTool ==
  [][asm_pc = "start" =>
       /\ NoImageFile => RaisedUntouched("raise_no_frames")
       /\ ~asm_tool => RaisedUntouched("raise_no_tool")]_vars

\* C16 amended: the missing-tool error is raised whenever the tool is
\* unavailable and the tree holds at least one image file; without an
\* image file the no-frames error is raised whether or not the tool is there
C16_NoFramesBeforeNoTool ==
  [][asm_pc = "start" =>
       /\ NoImageFile => RaisedUntouched("raise_no_frames")
       /\ (~asm_tool /\ ~NoImageFile) => RaisedUntouched("raise_no_tool")]_vars

\* a tree with files but no image, and no tool: the no-frames error
C16_Witness ==
  /\ asm_pc = "raise_no_frames"
  /\ asm_tree # {}
  /\ ~asm_tool
  /\ asm_encoder = 0

(***************************************************************************)
(* The command line: main and ttv_run (src/src/cli.py).  Each of the four  *)
(* stages is one synchronous call that returns or raises; what it does     *)
(* inside is the subject of the specifications above.                      *)
(***************************************************************************)
\* largest number of scenes read back from scenes.json
MaxRunScenes == 2

\* the scenes the model has parse_file return
RunSceneValues ==
  { [FinalizedScene(SceneIdOf(1), desc, desc, Unset) EXCEPT
       !.dialogue = dialogue,
       !.characters = [k \in 1..Len(dialogue) |-> dialogue[k].speaker]] :
      desc \in { <<"d">>, <<"S","c","e","n","e"," ","1">> },
      dialogue \in { <<>>,
                     <<[speaker |-> <<"A","l">>, text |-> <<"h","i">>]>>,
                     <<[speaker |-> <<"B","o">>, text |-> <<"y","o">>]>> } }

\* the scene lists the model has parse_file return
RunResults == UNION { [1..n -> RunSceneValues] : n \in 1..MaxRunScenes }

\* '. '.join(parts)
RECURSIVE JoinParts(_)
JoinParts(parts) ==
  IF Len(parts) = 0 THEN <<>>
  ELSE IF Len(parts) = 1 THEN parts[1]
  ELSE parts[1] \o <<".", " ">> \o JoinParts(Tail(parts))

\* lines 57-63: the parts the dialogue of a scene adds
RECURSIVE DialogueParts(_)
DialogueParts(dialogue) ==
  IF dialogue = <<>> THEN <<>>
  ELSE LET speaker == dialogue[1].speaker
           text == dialogue[1].text
           part == IF speaker # <<>> /\ text # <<>>
                   THEN <<speaker \o <<" ","s","a","y","s",":"," ">> \o text>>
                   ELSE IF text # <<>> THEN <<text>>
                   ELSE <<>>
       IN  part \o DialogueParts(Tail(dialogue))

\* AudioParts putting a scene's dialogue before its description
RECURSIVE AudioParts_DialogueFirst(_)
AudioParts_DialogueFirst(scene_list) ==
  IF scene_list = <<>> THEN <<>>
  ELSE LET scene == scene_list[1]
           desc == IF "description" \in scene.keys THEN scene.description ELSE <<>>
           dialogue == IF "dialogue" \in scene.keys THEN scene.dialogue ELSE <<>>
       IN  DialogueParts(dialogue) \o (IF desc # <<>> THEN <<desc>> ELSE <<>>)
             \o AudioParts_DialogueFirst(Tail(scene_list))

\* lines 49-63: audio_text_parts, scene by scene
RECURSIVE AudioParts(_)
AudioParts(scene_list) ==
  IF scene_list = <<>> THEN <<>>
  ELSE LET scene == scene_list[1]
           desc == IF "description" \in scene.keys THEN scene.description ELSE <<>>
           dialogue == IF "dialogue" \in scene.keys THEN scene.dialogue ELSE <<>>
       IN  (IF desc # <<>> THEN <<desc>> ELSE <<>>)
             \o DialogueParts(dialogue) \o AudioParts(Tail(scene_list))

\* the text of line 67
DefaultNarration ==
  <<"S","c","e","n","e"," ","n","a","r","r","a","t","i","o","n",".">>

\* lines 65-67: the text handed to synthesize
AudioText(scene_list) ==
  LET audio_text == JoinParts(AudioParts(scene_list))
  IN  IF Strip(audio_text) = <<>> THEN DefaultNarration ELSE audio_text

\* the order in which ttv_run calls the stages
StageOrder == <<"parse", "render", "synthesize", "assemble">>

InitRun ==
  /\ ParserIdle
  /\ RendererIdle
  /\ SynthesizerIdle
  /\ AssemblerIdle
  /\ ParseFileIdle
  /\ run_script_found \in BOOLEAN
  /\ run_pc = "main"
  /\ run_started = <<>>
  /\ run_completed = <<>>
  /\ run_failed = ""
  /\ run_scenes = <<>>
  /\ run_audio_text = <<>>
  /\ run_out \in {"absent", "old"}
  /\ run_exit = <<>>

\* main, lines 85-92: a missing script ends the process with status 1
run_main ==
  /\ run_pc = "main"
  /\ IF run_script_found
     THEN /\ run_pc' = "parse"
          /\ run_exit' = run_exit
     ELSE /\ run_pc' = "exited"
          /\ run_exit' = <<1>>
  /\ UNCHANGED <<run_script_found, run_started, run_completed, run_failed,
                 run_scenes, run_audio_text, run_out>>
  /\ UNCHANGED outside_run

\* ttv_run, line 37: parse_file writes scenes.json or raises
run_parse ==
  /\ run_pc = "parse"
  /\ run_started' = Append(run_started, "parse")
  /\ \/ /\ run_scenes' \in RunResults
        /\ run_completed' = Append(run_completed, "parse")
        /\ run_failed' = run_failed
        /\ run_pc' = "render"
     \/ /\ run_scenes' = run_scenes
        /\ run_completed' = run_completed
        /\ run_failed' = "parse"
        /\ run_pc' = "failed"
  /\ UNCHANGED <<run_script_found, run_audio_text, run_out, run_exit>>
  /\ UNCHANGED outside_run

\* ttv_run, line 41: generate_frames returns or raises
run_render ==
  /\ run_pc = "render"
  /\ run_started' = Append(run_started, "render")
  /\ \/ /\ run_completed' = Append(run_completed, "render")
        /\ run_failed' = run_failed
        /\ run_pc' = "synthesize"
     \/ /\ run_completed' = run_completed
        /\ run_failed' = "render"
        /\ run_pc' = "failed"
  /\ UNCHANGED <<run_script_found, run_scenes, run_audio_text, run_out, run_exit>>
  /\ UNCHANGED outside_run

\* ttv_run, lines 46-69: the audio text is collected, then synthesize
\* returns or raises
run_synthesize_GoesOn ==
  /\ run_pc = "synthesize"
  /\ run_audio_text' = AudioText(run_scenes)
  /\ run_started' = Append(run_started, "synthesize")
  /\ \/ /\ run_completed' = Append(run_completed, "synthesize")
        /\ run_failed' = run_failed
        /\ run_pc' = "assemble"
     \/ /\ run_completed' = run_completed
        /\ run_failed' = "synthesize"
        /\ run_pc' = "assemble"
  /\ UNCHANGED <<run_script_found, run_scenes, run_out, run_exit>>
  /\ UNCHANGED outside_run

run_synthesize ==
  /\ run_pc = "synthesize"
  /\ run_audio_text' = AudioText(run_scenes)
  /\ run_started' = Append(run_started, "synthesize")
  /\ \/ /\ run_completed' = Append(run_completed, "synthesize")
        /\ run_failed' = run_failed
        /\ run_pc' = "assemble"
     \/ /\ run_completed' = run_completed
        /\ run_failed' = "synthesize"
        /\ run_pc' = "failed"
  /\ UNCHANGED <<run_script_found, run_scenes, run_out, run_exit>>
  /\ UNCHANGED outside_run

\* ttv_run, line 73: assemble writes the video to out_path or raises,
\* before the encoder has run or because the run of the encoder failed
run_assemble ==
  /\ run_pc = "assemble"
  /\ run_started' = Append(run_started, "assemble")
  /\ \/ /\ run_out' = "complete"
        /\ run_completed' = Append(run_completed, "assemble")
        /\ run_failed' = run_failed
        /\ run_pc' = "complete"
     \/ /\ run_out' \in AfterFailedEncoding(run_out)
        /\ run_completed' = run_completed
        /\ run_failed' = "assemble"
        /\ run_pc' = "failed"
  /\ UNCHANGED <<run_script_found, run_scenes, run_audio_text, run_exit>>
  /\ UNCHANGED outside_run

\* ttv_run, line 75, and the return of main: status 0
run_complete ==
  /\ run_pc = "complete"
  /\ run_exit' = <<0>>
  /\ run_pc' = "exited"
  /\ UNCHANGED <<run_script_found, run_started, run_completed, run_failed,
                 run_scenes, run_audio_text, run_out>>
  /\ UNCHANGED outside_run

\* main, lines 93-97: the exception is printed and the process ends with
\* status 1
run_fail ==
  /\ run_pc = "failed"
  /\ run_exit' = <<1>>
  /\ run_pc' = "exited"
  /\ UNCHANGED <<run_script_found, run_started, run_completed, run_failed,
                 run_scenes, run_audio_text, run_out>>
  /\ UNCHANGED outside_run

NextRun ==
  \/ run_main
  \/ run_parse
  \/ run_render
  \/ run_synthesize
  \/ run_assemble
  \/ run_complete
  \/ run_fail

SpecRun == InitRun /\ [][NextRun]_vars

\* a is b or a beginning of b
IsPrefix(a, b) == Len(a) <= Len(b) /\ SubSeq(b, 1, Len(a)) = a

\* C17: the stages are started in the order parse, render, synthesize,
\* assemble; a stage is started only when every stage started before it
\* has returned, and once a stage has raised no stage is started
C17_StagesInOrder ==
  [][/\ IsPrefix(run_started', StageOrder)
     /\ run_started' # run_started =>
          /\ run_failed = ""
          /\ run_completed = run_started
          /\ Len(run_started') = Len(run_started) + 1
     /\ run_failed # "" => run_started' = run_started]_vars

\* the synthesizer raised after the parser and the renderer had returned,
\* and the process ended without the assembler having been started
C17_Witness ==
  /\ run_pc = "exited"
  /\ run_failed = "synthesize"
  /\ run_started = <<"parse", "render", "synthesize">>
  /\ run_completed = <<"parse", "render">>

\* the run ended in failure: the script was missing or a stage raised
RunFailed == run_pc = "exited" /\ (~run_script_found \/ run_failed # "")

\* C18: when the run has ended in failure the file at the output path is
\* not a partial one, and the exit status is not zero
C18_NoPartialOutputOnFailure ==
  RunFailed => (run_out # "partial" /\ run_exit # <<0>>)

\* what one scene contributes to the narration: its description when it
\* has one, then one phrase for each of its dialogue entries
SceneSpeech(scene) ==
  (IF scene.description # <<>> THEN <<scene.description>> ELSE <<>>)
  \o [k \in 1..Len(scene.dialogue) |->
        IF scene.dialogue[k].speaker # <<>>
        THEN scene.dialogue[k].speaker \o <<" ","s","a","y","s",":"," ">>
               \o scene.dialogue[k].text
        ELSE scene.dialogue[k].text]

\* the contributions of the first n scenes, in scene order
RECURSIVE SpeechUpTo(_, _)
SpeechUpTo(scene_list, n) ==
  IF n = 0 THEN <<>>
  ELSE SpeechUpTo(scene_list, n - 1) \o SceneSpeech(scene_list[n])

\* the first n phrases with '. ' between them
RECURSIVE JoinedUpTo(_, _)
JoinedUpTo(parts, n) ==
  IF n = 0 THEN <<>>
  ELSE IF n = 1 THEN parts[1]
  ELSE JoinedUpTo(parts, n - 1) \o <<".", " ">> \o parts[n]

\* the synthesizer stage has been started
SynthesizeStarted == \E k \in 1..Len(run_started) : run_started[k] = "synthesize"

TreePaths(tree) ==
  UNION { { dir \o <<"/">> \o f : f \in DOMAIN tree[dir] } : dir \in DOMAIN tree }

\* ttv_run, line 73: assemble is called with the renderer's out_dir as
\* frames_dir and with the audio file
assemble_frames ==
  /\ gf_pc = "done"
  /\ asm_pc = "idle"
  /\ asm_tree' = TreePaths(out_tree)
  /\ asm_tool' \in BOOLEAN
  /\ asm_audio' = TRUE
  /\ asm_pc' = "start"
  /\ asm_out' \in {"absent", "old"}
  /\ UNCHANGED <<asm_frames, asm_tmp, asm_encoder>>
  /\ UNCHANGED outside_assembler

NextFrames ==
  \/ gen_start
  \/ gen_scene
  \/ gen_done
  \/ assemble_frames
  \/ asm_scan
  \/ asm_copy
  \/ asm_encode

SpecFrames == InitRenderAgain /\ [][NextFrames]_vars

\* the frames of scene k, in frame-number order, as paths in the tree
FramesOfScene(k) ==
  LET scene == data_scenes[k]
      d == IF scene.duration_hint = Unset THEN 2000 ELSE scene.duration_hint[1]
      floor == (d * fps_hint) \div 1000
      N == IF floor > 1 THEN floor ELSE 1
  IN  [n \in 1..N |->
         scene.scene_id \o <<"/","f","r","a","m","e","_">> \o Pad6(n)
           \o <<".","p","n","g">>]

\* the frames of the first k scenes, scene after scene
RECURSIVE FramesUpTo(_)
FramesUpTo(k) == IF k = 0 THEN <<>> ELSE FramesUpTo(k - 1) \o FramesOfScene(k)

\* C29: the images handed to the encoder, in the order of their new
\* numbers, are the frames of the scenes and nothing else, scene after
\* scene in parsing order and in frame order within a scene
C29_EncoderGetsSceneFrames ==
  asm_pc = "encode" => asm_tmp = FramesUpTo(Len(data_scenes))

(***************************************************************************)
(* parse_file (src/src/pipeline/parser.py): read the script, parse it and  *)
(* write the scenes as JSON.  The call of parse_script is the parser       *)
(* above, run on the text read from the file.                              *)
(***************************************************************************)

InitParseFile ==
  /\ ParserIdle
  /\ RendererIdle
  /\ SynthesizerIdle
  /\ AssemblerIdle
  /\ RunIdle
  /\ pf_input_file \in {"missing", "unreadable", "readable"}
  /\ pf_input_text \in IF pf_input_file = "readable" THEN Scripts ELSE {<<>>}
  /\ pf_output \in {"absent", "old"}
  /\ pf_pc = "read"
  /\ pf_raised_type = ""
  /\ pf_raised_msg = ""

\* the first try block: open and read the input, a failure raised under
\* the reader's two messages
pf_read ==
  /\ pf_pc = "read"
  /\ CASE pf_input_file = "missing" ->
            /\ pf_pc' = "raised"
            /\ pf_raised_type' = "FileNotFoundError"
            /\ pf_raised_msg' = "Input file not found"
            /\ UNCHANGED <<script_text, pc>>
       [] pf_input_file = "unreadable" ->
            /\ pf_pc' = "raised"
            /\ pf_raised_type' = "IOError"
            /\ pf_raised_msg' = "Error reading input file"
            /\ UNCHANGED <<script_text, pc>>
       [] OTHER ->
            /\ pf_pc' = "parse"
            /\ script_text' = pf_input_text
            /\ pc' = "start"
            /\ UNCHANGED <<pf_raised_type, pf_raised_msg>>
  /\ UNCHANGED <<lines, i, current_scene, scene_counter, scenes, heap, opened_at>>
  /\ UNCHANGED <<pf_input_file, pf_input_text, pf_output>>
  /\ UNCHANGED <<gf_vars, syn_vars, asm_vars, run_vars>>

\* what writing the JSON can come to: written, open() refused, or the
\* dump broken off after open() emptied the file
WriteOutcomes == {"written", "open_failed", "dump_failed"}

\* the second try block once parse_script is over: every exception raised
\* inside it, the parser's included, is raised again as an IOError under
\* the writer's message
pf_write ==
  /\ pf_pc = "parse"
  /\ Finished
  /\ IF pc # "returned"
     THEN /\ pf_pc' = "raised"
          /\ pf_raised_type' = "IOError"
          /\ pf_raised_msg' = "Error writing output file"
          /\ UNCHANGED pf_output
     ELSE \E outcome \in WriteOutcomes :
            CASE outcome = "written" ->
                   /\ pf_pc' = "returned"
                   /\ pf_output' = "json"
                   /\ UNCHANGED <<pf_raised_type, pf_raised_msg>>
              [] outcome = "open_failed" ->
                   /\ pf_pc' = "raised"
                   /\ pf_raised_type' = "IOError"
                   /\ pf_raised_msg' = "Error writing output file"
                   /\ UNCHANGED pf_output
              [] OTHER ->
                   /\ pf_pc' = "raised"
                   /\ pf_raised_type' = "IOError"
                   /\ pf_raised_msg' = "Error writing output file"
                   /\ pf_output' = "partial"
  /\ UNCHANGED <<pf_input_file, pf_input_text>>
  /\ UNCHANGED <<parser_vars, gf_vars, syn_vars, asm_vars, run_vars>>

NextParseFile ==
  \/ pf_read
  \/ parse_start
  \/ blank_line
  \/ scene_marker
  \/ content_line
  \/ parse_finish
  \/ pf_write

SpecParseFile == InitParseFile /\ [][NextParseFile]_vars

\* parse_script refused the text read from the file as empty
EmptyInputRejected == pf_pc = "raised" /\ pc = "raise_empty"

\* C32: when parse_script refuses the text of the file as empty, the caller
\* gets the parser's ValueError and the output file is as it was
C32_EmptyInputKeepsItsKind ==
  EmptyInputRejected =>
    /\ pf_raised_type = "ValueError"
    /\ pf_output \in {"absent", "old"}

====
